---- MODULE Spec2Model ----
(***************************************************************************)
(* State-machine model of the Cadenza realtime core: the timing-window     *)
(* judge (cadenza-domain-eval), the audio graph and its control-to-audio   *)
(* queue (cadenza-core/audio_graph.rs), and the application coordinator    *)
(* AppCore with its transport and scheduler (cadenza-core/app.rs,          *)
(* transport.rs, scheduler.rs).                                            *)
(*                                                                         *)
(* The specifications share the variables:                                 *)
(*   SpecJudge  calls of Judge::load_targets / on_note_on / advance_to     *)
(*   SpecGraph  pushes to the control-to-audio queue and audio callbacks   *)
(*   SpecSched  a Scheduler and its Transport driven call by call          *)
(*   SpecTransport  a Transport driven call by call                        *)
(*   SpecInput  AppCore with a MIDI input: callbacks, commands and ticks   *)
(*   Spec       AppCore commands, control ticks and audio callbacks        *)
(* Each of the first four leaves the other components at their initial    *)
(* value.                                                                  *)
(***************************************************************************)
EXTENDS Integers, Sequences, FiniteSets, TLC

VARIABLES
    judge,          \* Judge {cfg, targets, idx, state, stats}
    jevents,        \* Vec<JudgeEvent> returned by the last judge call
    jcall,          \* the last judge call: [op, tick, note]
    jcalls,         \* number of judge calls made so far by the judge's driver
    audio_queue,    \* contents of the control-to-audio ring buffer (FIFO)
    pending,        \* AudioGraph.pending : Option<ScheduledEvent>
    audio_clock,    \* AudioClock.sample_time
    stream_time,    \* the backend's per-stream sample counter
    synth_calls,    \* synth.handle_event calls made by the last audio callback
    gblock,         \* the last audio callback's block: [start, frames, segments]
    gpushes,        \* number of events pushed into the ring buffer so far
    params,         \* AudioParams
    session_state,  \* AppCore.session_state
    score,          \* AppCore.score : Option<Score>
    audio_stream,   \* AppCore.audio_stream.is_some()
    audio_queue_tx, \* AppCore.audio_queue_tx.is_some()
    settings,       \* AppCore.settings (the fields the core reads)
    transport,      \* AppCore.transport
    scheduler,      \* AppCore.scheduler
    last_cmd,       \* name of the last command / tick / callback executed
    last_result,    \* its result: "Ok" or the AppError variant
    steps,          \* number of commands, ticks and callbacks AppCore has run
    emitted,        \* Vec<ScheduledEvent> returned by the last Scheduler::schedule
    emitted_since,  \* all events schedule() returned since the last change of
                    \* score, position, loop or routing
    cursor_since,   \* Scheduler.cursor at that change
    probe,          \* the last call made on the transport by its driver, with its
                    \* arguments and what it returned
    midi_stream,    \* AppCore.midi_stream.is_some()
    midi_queue_rx,  \* AppCore.midi_queue_rx.is_some()
    midi_queue,     \* contents of the MIDI input ring buffer (PlayerEvents, FIFO)
    recent_inputs,  \* AppCore.recent_inputs
    wall,           \* the wall clock (Instant), in milliseconds
    judged,         \* the PlayerNoteOns the last tick() gave to judge.on_note_on
    twin,           \* a second AppCore, given the same commands, clock values
                    \* and MIDI input, whose input offset stays 0 (SpecInput)
    smf_events,     \* import_midi_bytes: the events read from the file's tracks
    playback_events,\* import_midi_bytes: the playback events of the score, once
                    \* built
    wg,             \* WaveguidePianoSynth: the mutex and what it guards
    wg_call         \* the last call on the synth and what it returned

judgeVars == <<judge, jevents, jcall, jcalls>>
graphVars == <<audio_queue, pending, audio_clock, stream_time, synth_calls, gblock,
               gpushes, params>>
appVars == <<session_state, score, audio_stream, audio_queue_tx, settings,
             transport, scheduler, last_cmd, last_result, steps>>
schedVars == <<emitted, emitted_since, cursor_since, probe>>
inputVars == <<midi_stream, midi_queue_rx, midi_queue, recent_inputs, wall, judged, twin>>
auxVars == <<smf_events, playback_events, wg, wg_call>>
vars == <<judgeVars, graphVars, appVars, schedVars, inputVars, auxVars>>

----------------------------------------------------------------------------
(* Generic helpers                                                         *)

\* Option<T> is a sequence of length 0 (None) or 1 (Some).
None == <<>>
Some(x) == <<x>>

Abs(x) == IF x < 0 THEN -x ELSE x
Max(a, b) == IF a >= b THEN a ELSE b
Min(a, b) == IF a <= b THEN a ELSE b
Range(s) == {s[i] : i \in DOMAIN s}

----------------------------------------------------------------------------
(* Judge (crates/cadenza-domain-eval/src/judge.rs)                         *)

NoTarget == -1     \* FocusChanged { target_id: None }

StatsState0 == [combo |-> 0, score |-> 0, hit |-> 0, miss |-> 0, wrong |-> 0]

\* Judge::new
JudgeNew(cfg) ==
    [cfg |-> cfg, targets |-> <<>>, idx |-> 0, state |-> None, stats |-> StatsState0]

\* Judge::current_target (idx is 0-based as in the source)
current_target(j) ==
    IF j.idx < Len(j.targets) THEN Some(j.targets[j.idx + 1]) ELSE None

\* Judge::current_focus
current_focus(j) ==
    IF j.idx < Len(j.targets) THEN j.targets[j.idx + 1].id ELSE NoTarget

\* Judge::build_state: expected is the set of the target's notes
build_state(j) ==
    IF j.idx < Len(j.targets)
    THEN Some([expected |-> Range(j.targets[j.idx + 1].notes),
               matched |-> <<>>,
               wrong_notes |-> 0,
               first_match_tick |-> None])
    ELSE None

\* Judge::stats_event
stats_event(j) ==
    [type |-> "Stats", combo |-> j.stats.combo, score |-> j.stats.score,
     hit |-> j.stats.hit, miss |-> j.stats.miss, wrong |-> j.stats.wrong]

\* A mutant of advance_focus: the event names the target being left.
advance_focus_stale(r) ==
    LET j1 == [r.j EXCEPT !.idx = @ + 1]
        j2 == [j1 EXCEPT !.state = build_state(j1)]
    IN [j |-> j2,
        events |-> Append(r.events, [type |-> "FocusChanged", target_id |-> current_focus(r.j)])]

\* Judge::advance_focus
advance_focus(r) ==
    LET j1 == [r.j EXCEPT !.idx = @ + 1]
        j2 == [j1 EXCEPT !.state = build_state(j1)]
    IN [j |-> j2,
        events |-> Append(r.events, [type |-> "FocusChanged", target_id |-> current_focus(j2)])]

\* A mutant of grade_points: a Good hit scores like a Perfect one.
grade_points_flat(grade) == 100

\* the match in Judge::update_stats_on_hit
grade_points(grade) ==
    CASE grade = "Perfect" -> 100
      [] grade = "Good" -> 70
      [] OTHER -> 0

\* Judge::update_stats_on_hit
update_stats_on_hit(r, grade, wrong_notes) ==
    LET j1 == [r.j EXCEPT !.stats = [combo |-> @.combo + 1,
                                     score |-> @.score + grade_points(grade),
                                     hit |-> @.hit + 1,
                                     miss |-> @.miss,
                                     wrong |-> @.wrong + wrong_notes]]
    IN [j |-> j1, events |-> Append(r.events, stats_event(j1))]

\* A mutant of update_stats_on_miss: the combo survives a Miss.
update_stats_on_miss_keep_combo(r, wrong_notes) ==
    LET j1 == [r.j EXCEPT !.stats = [combo |-> @.combo,
                                     score |-> @.score,
                                     hit |-> @.hit,
                                     miss |-> @.miss + 1,
                                     wrong |-> @.wrong + wrong_notes]]
    IN [j |-> j1, events |-> Append(r.events, stats_event(j1))]

\* Judge::update_stats_on_miss
update_stats_on_miss(r, wrong_notes) ==
    LET j1 == [r.j EXCEPT !.stats = [combo |-> 0,
                                     score |-> @.score,
                                     hit |-> @.hit,
                                     miss |-> @.miss + 1,
                                     wrong |-> @.wrong + wrong_notes]]
    IN [j |-> j1, events |-> Append(r.events, stats_event(j1))]

\* A mutant of advance_due: a target times out already when now reaches the
\* end of its good window.
advance_due_early(now_tick, target_tick, good) == now_tick >= target_tick + good

\* the loop condition of Judge::advance_to: the focused target has timed out
advance_due(now_tick, target_tick, good) == ~(now_tick <= target_tick + good)

\* The loop of Judge::advance_to, r = [j, events] accumulated so far.
RECURSIVE advance_loop(_, _)
advance_loop(r, now_tick) ==
    IF current_target(r.j) = None \/ r.j.state = None
    THEN r
    ELSE LET target == r.j.targets[r.j.idx + 1]
             state == r.j.state[1]
         IN IF ~advance_due(now_tick, target.tick, r.j.cfg.good)
            THEN r
            ELSE LET missing_notes ==
                         Max(0, Cardinality(state.expected)
                                  - Cardinality(DOMAIN state.matched))
                     miss == [type |-> "Miss", target_id |-> target.id,
                              reason |-> "Timeout",
                              missing_notes |-> missing_notes,
                              wrong_notes |-> state.wrong_notes]
                     r1 == [j |-> r.j, events |-> Append(r.events, miss)]
                     r2 == update_stats_on_miss(r1, state.wrong_notes)
                     r3 == advance_focus(r2)
                 IN advance_loop(r3, now_tick)

\* Judge::advance_to
advance_to(j, now_tick) == advance_loop([j |-> j, events |-> <<>>], now_tick)

\* Judge::load_targets
load_targets(j, targets) ==
    LET j1 == [j EXCEPT !.targets = targets, !.idx = 0]
        j2 == [j1 EXCEPT !.state = build_state(j1)]
    IN [j |-> j2,
        events |-> <<[type |-> "FocusChanged", target_id |-> current_focus(j2)]>>]

\* A mutant of hit_grade: the wrong-note policy is ignored.
hit_grade_no_degrade(cfg, delta, wrong_notes) ==
    IF Abs(delta) <= cfg.perfect THEN "Perfect" ELSE "Good"

\* the grade of a resolved target in Judge::on_note_on
hit_grade(cfg, delta, wrong_notes) ==
    LET grade == IF Abs(delta) <= cfg.perfect THEN "Perfect" ELSE "Good"
    IN IF cfg.wrong_note_policy = "DegradePerfect" /\ wrong_notes > 0
          /\ grade = "Perfect"
       THEN "Good"
       ELSE grade

\* A mutant of note_accepted: the chord-roll distance is not checked.
note_accepted_no_roll(state, e, chord_roll) ==
    e.note \in state.expected /\ e.note \notin DOMAIN state.matched

\* Judge::on_note_on: the note is recorded as a match
note_accepted(state, e, chord_roll) ==
    /\ e.note \in state.expected
    /\ e.note \notin DOMAIN state.matched
    /\ IF state.first_match_tick = None
       THEN TRUE
       ELSE Abs(e.tick - state.first_match_tick[1]) <= chord_roll

\* Judge::on_note_on: the focus state after the note was looked at
note_state(state, e, window_end, chord_roll) ==
    IF e.tick <= window_end
    THEN IF e.note \in state.expected /\ e.note \notin DOMAIN state.matched
         THEN IF note_accepted(state, e, chord_roll)
              THEN [state EXCEPT
                      !.matched = [n \in (DOMAIN state.matched) \cup {e.note} |->
                                     IF n = e.note THEN e.tick ELSE state.matched[n]],
                      !.first_match_tick =
                          IF @ = None THEN Some(e.tick) ELSE @]
              ELSE state
         ELSE IF e.note \notin state.expected
              THEN [state EXCEPT !.wrong_notes = @ + 1]
              ELSE state
    ELSE state

\* A mutant of target_resolved: a target with no expected notes resolves too.
target_resolved_any(state) ==
    Cardinality(DOMAIN state.matched) = Cardinality(state.expected)

\* Judge::on_note_on: the resolution test
target_resolved(state) ==
    /\ Cardinality(DOMAIN state.matched) = Cardinality(state.expected)
    /\ state.expected # {}

\* Judge::on_note_on, e = [tick, note, velocity]
on_note_on(j, e) ==
    LET a == advance_to(j, e.tick)
    IN IF current_target(a.j) = None
       THEN a
       ELSE LET target == a.j.targets[a.j.idx + 1]
                good == a.j.cfg.good
                window_start == target.tick - good
                window_end == target.tick + good
            IN IF e.tick < window_start
               THEN a
               ELSE IF a.j.state = None
                    THEN a
                    ELSE LET st == note_state(a.j.state[1], e, window_end,
                                               a.j.cfg.chord_roll)
                             j1 == [a.j EXCEPT !.state = Some(st)]
                         IN IF target_resolved(st)
                            THEN LET first_match ==
                                         IF st.first_match_tick = None
                                         THEN target.tick
                                         ELSE st.first_match_tick[1]
                                     delta == first_match - target.tick
                                     grade == hit_grade(a.j.cfg, delta, st.wrong_notes)
                                     hit == [type |-> "Hit", target_id |-> target.id,
                                             grade |-> grade, delta_tick |-> delta,
                                             wrong_notes |-> st.wrong_notes]
                                     r1 == [j |-> j1, events |-> Append(a.events, hit)]
                                     r2 == update_stats_on_hit(r1, grade, st.wrong_notes)
                                 IN advance_focus(r2)
                            ELSE [j |-> j1, events |-> a.events]

----------------------------------------------------------------------------
(* MIDI events and scheduled events (cadenza-ports midi.rs, playback.rs)   *)

\* MidiLikeEvent, as a record with the fields of all three variants
NoteOn(note, velocity) == [kind |-> "NoteOn", note |-> note, velocity |-> velocity, value |-> 0]
NoteOff(note) == [kind |-> "NoteOff", note |-> note, velocity |-> 0, value |-> 0]
Cc64(value) == [kind |-> "Cc64", note |-> 0, velocity |-> 0, value |-> value]

PlaybackMidiEvent(tick, event, hand) == [tick |-> tick, event |-> event, hand |-> hand]

\* ScheduledEvent
ScheduledEvent(sample_time, bus, event) ==
    [sample_time |-> sample_time, bus |-> bus, event |-> event]

Buses == {"UserMonitor", "Autopilot", "MetronomeFx"}

----------------------------------------------------------------------------
(* Audio parameters (crates/cadenza-core/src/audio_params.rs)              *)

\* A mutant of bus: the playback flag is not consulted.
bus_unmuted(p, b) ==
    CASE b = "UserMonitor" -> p.bus_user
      [] b = "Autopilot" -> p.bus_autopilot
      [] OTHER -> p.bus_metronome

\* AudioParams::bus
bus(p, b) ==
    IF ~p.playback_enabled /\ b \in {"Autopilot", "MetronomeFx"}
    THEN 0
    ELSE CASE b = "UserMonitor" -> p.bus_user
           [] b = "Autopilot" -> p.bus_autopilot
           [] OTHER -> p.bus_metronome

----------------------------------------------------------------------------
(* Audio graph (crates/cadenza-core/src/audio_graph.rs)                    *)

\* A mutant of midi_event_rank: NoteOn sorts before NoteOff.
midi_event_rank_on_first(event) ==
    CASE event.kind = "Cc64" -> IF event.value >= 64 THEN 0 ELSE 3
      [] event.kind = "NoteOff" -> 2
      [] OTHER -> 1

\* midi_event_rank
midi_event_rank(event) ==
    CASE event.kind = "Cc64" -> IF event.value >= 64 THEN 0 ELSE 3
      [] event.kind = "NoteOff" -> 1
      [] OTHER -> 2

\* midi_event_note_key
midi_event_note_key(event) ==
    CASE event.kind = "NoteOn" -> event.note
      [] event.kind = "NoteOff" -> event.note
      [] OTHER -> 0

\* The comparator of the sort in collect_events: -1, 0 or 1.
event_cmp(a, b) ==
    IF a.sample_time # b.sample_time
    THEN (IF a.sample_time < b.sample_time THEN -1 ELSE 1)
    ELSE IF midi_event_rank(a.event) # midi_event_rank(b.event)
         THEN (IF midi_event_rank(a.event) < midi_event_rank(b.event) THEN -1 ELSE 1)
         ELSE IF midi_event_note_key(a.event) # midi_event_note_key(b.event)
              THEN (IF midi_event_note_key(a.event) < midi_event_note_key(b.event)
                    THEN -1 ELSE 1)
              ELSE 0

\* Insert x behind every element that does not compare greater: the place a
\* stable sort gives the last element of its input.
RECURSIVE insert_stable(_, _)
insert_stable(sorted, x) ==
    IF sorted = <<>>
    THEN <<x>>
    ELSE LET last == sorted[Len(sorted)]
         IN IF event_cmp(last, x) <= 0
            THEN Append(sorted, x)
            ELSE Append(insert_stable(SubSeq(sorted, 1, Len(sorted) - 1), x), last)

\* Vec::sort_by (a stable sort) with the comparator of collect_events
RECURSIVE sort_events(_)
sort_events(events) ==
    IF events = <<>>
    THEN <<>>
    ELSE insert_stable(sort_events(SubSeq(events, 1, Len(events) - 1)),
                       events[Len(events)])

\* The pop loop of collect_events: r = [events, pending, queue].
RECURSIVE pop_loop(_, _)
pop_loop(r, sample_time_end) ==
    IF r.queue = <<>>
    THEN r
    ELSE LET event == Head(r.queue)
         IN IF event.sample_time < sample_time_end
            THEN pop_loop([events |-> Append(r.events, event),
                           pending |-> r.pending,
                           queue |-> Tail(r.queue)], sample_time_end)
            ELSE [events |-> r.events, pending |-> Some(event), queue |-> Tail(r.queue)]

\* A mutant of collect_events: the queue is read also while the pending slot
\* holds an event that is not due.
collect_events_overwriting(pend, queue, sample_time_end) ==
    LET held == pend # None /\ ~(pend[1].sample_time < sample_time_end)
        r == pop_loop([events |-> IF held THEN <<>> ELSE pend,
                       pending |-> IF held THEN pend ELSE None,
                       queue |-> queue],
                      sample_time_end)
    IN [events |-> sort_events(r.events), pending |-> r.pending, queue |-> r.queue]

\* AudioGraph::collect_events: [events, pending, queue] after the call
collect_events(pend, queue, sample_time_end) ==
    IF pend # None /\ ~(pend[1].sample_time < sample_time_end)
    THEN [events |-> <<>>, pending |-> pend, queue |-> queue]
    ELSE LET r == pop_loop([events |-> pend, pending |-> None, queue |-> queue],
                           sample_time_end)
         IN [events |-> sort_events(r.events), pending |-> r.pending, queue |-> r.queue]

\* A mutant of event_muted: nothing is skipped.
event_muted_never(event, playback_enabled) == FALSE

\* AudioGraph::render: the global mute of score-driven NoteOns
event_muted(event, playback_enabled) ==
    /\ ~playback_enabled
    /\ event.bus \in {"Autopilot", "MetronomeFx"}
    /\ event.event.kind = "NoteOn"

\* The event loop of AudioGraph::render from index idx on:
\* r = [calls, cursor_sample, cursor_frame, segments]; a segment is the range
\* of frames [from, to) of the output buffers one render_segment call fills.
RECURSIVE dispatch_loop(_, _, _, _, _)
dispatch_loop(events, idx, r, sample_time_end, playback_enabled) ==
    IF idx > Len(events)
    THEN r
    ELSE LET event == events[idx]
         IN IF event.sample_time >= sample_time_end
               \/ event_muted(event, playback_enabled)
            THEN dispatch_loop(events, idx + 1, r, sample_time_end, playback_enabled)
            ELSE LET event_sample == Max(event.sample_time, r.cursor_sample)
                     event_frame == event_sample - r.cursor_sample
                     call == [bus |-> event.bus, event |-> event.event,
                              at |-> event_sample, sample_time |-> event.sample_time,
                              frame |-> r.cursor_frame + event_frame]
                     end == r.cursor_frame + event_frame
                 IN dispatch_loop(events, idx + 1,
                                  [calls |-> Append(r.calls, call),
                                   cursor_sample |-> event_sample,
                                   cursor_frame |-> end,
                                   segments |->
                                       IF event_frame > 0
                                       THEN Append(r.segments,
                                                   [from |-> r.cursor_frame, to |-> end])
                                       ELSE r.segments],
                                  sample_time_end, playback_enabled)

\* A mutant of render: every event is handed over before the block is
\* rendered, in one segment.
render_events_first(pend, queue, sample_time_start, frames, playback_enabled) ==
    LET sample_time_end == sample_time_start + frames
        c == collect_events(pend, queue, sample_time_end)
        d == dispatch_loop(c.events, 1,
                           [calls |-> <<>>, cursor_sample |-> sample_time_start,
                            cursor_frame |-> 0, segments |-> <<>>],
                           sample_time_end, playback_enabled)
    IN [pending |-> c.pending, queue |-> c.queue,
        calls |-> [i \in 1..Len(d.calls) |-> [d.calls[i] EXCEPT !.frame = 0]],
        segments |-> <<[from |-> 0, to |-> frames]>>,
        clock |-> sample_time_end]

\* AudioGraph::render: what one callback does to the graph and the synth
render(pend, queue, sample_time_start, frames, playback_enabled) ==
    LET sample_time_end == sample_time_start + frames
        c == collect_events(pend, queue, sample_time_end)
        d == dispatch_loop(c.events, 1,
                           [calls |-> <<>>, cursor_sample |-> sample_time_start,
                            cursor_frame |-> 0, segments |-> <<>>],
                           sample_time_end, playback_enabled)
    IN [pending |-> c.pending, queue |-> c.queue, calls |-> d.calls,
        segments |-> IF d.cursor_frame < frames
                     THEN Append(d.segments, [from |-> d.cursor_frame, to |-> frames])
                     ELSE d.segments,
        clock |-> sample_time_end]

----------------------------------------------------------------------------
(* Transport and tempo map (crates/cadenza-core/src/transport.rs)          *)
(*                                                                         *)
(* The source computes the conversions in i128 and f64.  For the values    *)
(* the model reaches both are exact, so they are computed here on the      *)
(* integers, with the rate reduced to lowest terms first to keep the       *)
(* intermediate products small.  The tempo multiplier (an f32) is a pair   *)
(* <<num, den>> standing for num/den; the model uses multipliers that an   *)
(* f32 holds exactly.                                                      *)

RECURSIVE Gcd(_, _)
Gcd(a, b) == IF b = 0 THEN a ELSE Gcd(b, a % b)

\* integer division truncating toward zero (Rust's / on integers), d > 0
TruncDiv(n, d) == IF n >= 0 THEN n \div d ELSE -((-n) \div d)

\* f64::round of n/d (half away from zero), d > 0
RoundDiv(n, d) ==
    IF n >= 0 THEN (2 * n + d) \div (2 * d) ELSE -((2 * (-n) + d) \div (2 * d))

\* x * n / d with n/d in lowest terms, by the given division
ScaleBy(x, n, d, Div(_, _)) ==
    LET g == Gcd(n, d) IN Div(x * (n \div g), d \div g)

MicrosPerSecond == 1000000

\* ticks_to_us
ticks_to_us(ticks, us_per_quarter, ppq) == ScaleBy(ticks, us_per_quarter, ppq, TruncDiv)

\* us_to_ticks
us_to_ticks(us, us_per_quarter, ppq) == ScaleBy(us, ppq, us_per_quarter, TruncDiv)

\* micros_to_samples
micros_to_samples(micros, sample_rate_hz) ==
    IF micros <= 0 THEN 0 ELSE ScaleBy(micros, sample_rate_hz, MicrosPerSecond, RoundDiv)

\* samples_to_micros
samples_to_micros(sample, sample_rate_hz) ==
    ScaleBy(sample, MicrosPerSecond, sample_rate_hz, RoundDiv)

\* u64::saturating_sub
saturating_sub(a, b) == IF a >= b THEN a - b ELSE 0

DefaultUsPerQuarter == 500000

\* Vec::sort_by_key(|x| x.tick) (a stable sort, of tempo points and of playback
\* events): insert p behind the elements with tick <= p.tick
RECURSIVE insert_point(_, _)
insert_point(sorted, p) ==
    IF sorted = <<>>
    THEN <<p>>
    ELSE LET last == sorted[Len(sorted)]
         IN IF last.tick <= p.tick
            THEN Append(sorted, p)
            ELSE Append(insert_point(SubSeq(sorted, 1, Len(sorted) - 1), p), last)

RECURSIVE sort_points(_)
sort_points(points) ==
    IF points = <<>>
    THEN <<>>
    ELSE insert_point(sort_points(SubSeq(points, 1, Len(points) - 1)), points[Len(points)])

\* The segment loop of TempoMap::new: segments for points[1..n]
RECURSIVE tempo_segments(_, _, _)
tempo_segments(points, n, ppq) ==
    IF n = 0
    THEN <<>>
    ELSE LET before == tempo_segments(points, n - 1, ppq)
             current_us ==
                 IF n = 1
                 THEN 0
                 ELSE before[n - 1].start_us
                      + ticks_to_us(points[n].tick - points[n - 1].tick,
                                    points[n - 1].us_per_quarter, ppq)
         IN Append(before, [start_tick |-> points[n].tick,
                            start_us |-> current_us,
                            us_per_quarter |-> points[n].us_per_quarter])

\* TempoMap::new
TempoMapNew(ppq, points) ==
    LET with0 == IF points = <<>> \/ points[1].tick # 0
                 THEN <<[tick |-> 0, us_per_quarter |-> DefaultUsPerQuarter]>> \o points
                 ELSE points
        sorted == sort_points(with0)
    IN [ppq |-> ppq, segments |-> tempo_segments(sorted, Len(sorted), ppq)]

\* The scan of segment_for_tick / segment_for_micros: the last segment of the
\* leading run of segments whose start (field) is not beyond x
RECURSIVE segment_scan(_, _, _, _, _)
segment_scan(segments, i, current, field, x) ==
    IF i > Len(segments) \/ segments[i][field] > x
    THEN current
    ELSE segment_scan(segments, i + 1, segments[i], field, x)

\* TempoMap::segment_for_tick
segment_for_tick(map, tick) ==
    segment_scan(map.segments, 1, map.segments[1], "start_tick", tick)

\* TempoMap::segment_for_micros
segment_for_micros(map, micros) ==
    segment_scan(map.segments, 1, map.segments[1], "start_us", micros)

\* TempoMap::tick_to_micros
tick_to_micros(map, tick) ==
    LET seg == segment_for_tick(map, tick)
    IN seg.start_us + ticks_to_us(tick - seg.start_tick, seg.us_per_quarter, map.ppq)

\* TempoMap::micros_to_tick
micros_to_tick(map, micros) ==
    LET seg == segment_for_micros(map, micros)
    IN seg.start_tick + us_to_ticks(micros - seg.start_us, seg.us_per_quarter, map.ppq)

\* TempoMap::us_per_quarter_at
us_per_quarter_at(map, tick) == segment_for_tick(map, tick).us_per_quarter

\* Transport::new
TransportNew(ppq, sample_rate_hz, tempo_points) ==
    [state |-> "Stopped",
     ppq |-> ppq,
     sample_rate_hz |-> sample_rate_hz,
     origin_sample |-> 0,
     tempo_map |-> TempoMapNew(ppq, tempo_points),
     tempo_multiplier |-> <<1, 1>>,
     position_tick |-> 0,
     position_sample |-> 0,
     loop_range |-> None]

\* Transport::tick_to_micros_scaled: round(base / multiplier)
tick_to_micros_scaled(t, tick) ==
    RoundDiv(tick_to_micros(t.tempo_map, tick) * t.tempo_multiplier[2],
             t.tempo_multiplier[1])

\* Transport::tick_to_sample_relative
tick_to_sample_relative(t, tick) ==
    micros_to_samples(tick_to_micros_scaled(t, tick), t.sample_rate_hz)

\* Transport::tick_to_sample
tick_to_sample(t, tick) == t.origin_sample + tick_to_sample_relative(t, tick)

\* Transport::sample_to_tick that takes the sample time as relative to 0
sample_to_tick_no_origin(t, sample) ==
    LET micros == samples_to_micros(sample, t.sample_rate_hz)
        scaled == RoundDiv(micros * t.tempo_multiplier[1], t.tempo_multiplier[2])
    IN micros_to_tick(t.tempo_map, scaled)

\* Transport::sample_to_tick
sample_to_tick(t, sample) ==
    LET relative_sample == saturating_sub(sample, t.origin_sample)
        micros == samples_to_micros(relative_sample, t.sample_rate_hz)
        scaled == RoundDiv(micros * t.tempo_multiplier[1], t.tempo_multiplier[2])
    IN micros_to_tick(t.tempo_map, scaled)

\* Transport::seek
transport_seek(t, tick) ==
    [t EXCEPT !.position_tick = tick, !.position_sample = tick_to_sample(t, tick)]

\* Transport::stop
transport_stop(t) ==
    LET target_tick == IF t.loop_range = None THEN 0 ELSE t.loop_range[1].start_tick
    IN transport_seek([t EXCEPT !.state = "Stopped"], target_tick)

\* Transport::play
transport_play(t) == [t EXCEPT !.state = "Playing"]

\* Transport::pause
transport_pause(t) == [t EXCEPT !.state = "Paused"]

\* Transport::align_to_sample_time
align_to_sample_time(t, sample_time) ==
    [t EXCEPT !.origin_sample =
                  saturating_sub(sample_time, tick_to_sample_relative(t, t.position_tick)),
              !.position_sample = sample_time]

\* Transport::set_origin_sample
set_origin_sample(t, origin_sample) ==
    LET t1 == [t EXCEPT !.origin_sample = origin_sample]
    IN [t1 EXCEPT !.position_sample = tick_to_sample(t1, t1.position_tick)]

\* Transport::recalculate_origin
recalculate_origin(t) ==
    [t EXCEPT !.origin_sample =
                  saturating_sub(t.position_sample,
                                 tick_to_sample_relative(t, t.position_tick))]

\* Transport::set_sample_rate
set_sample_rate(t, sample_rate_hz) ==
    recalculate_origin([t EXCEPT !.sample_rate_hz = sample_rate_hz])

\* f32::max(multiplier, 0.1) on <<num, den>> pairs
MinMultiplier == <<1, 10>>
multiplier_max(x, y) == IF x[1] * y[2] >= y[1] * x[2] THEN x ELSE y

\* Transport::set_tempo_multiplier
set_tempo_multiplier(t, multiplier) ==
    recalculate_origin([t EXCEPT !.tempo_multiplier =
                                     multiplier_max(multiplier, MinMultiplier)])

\* Transport::update_tempo_map
update_tempo_map(t, points) ==
    recalculate_origin([t EXCEPT !.tempo_map = TempoMapNew(t.ppq, points)])

\* Transport::sync_to_sample_time
sync_to_sample_time(t, sample_time) ==
    [t EXCEPT !.position_sample = sample_time,
              !.position_tick = sample_to_tick(t, sample_time)]

\* Transport::ms_to_ticks
ms_to_ticks(t, ms) ==
    us_to_ticks(ms * 1000, us_per_quarter_at(t.tempo_map, t.position_tick), t.ppq)

----------------------------------------------------------------------------
(* Scheduler (crates/cadenza-core/src/scheduler.rs)                        *)

\* Scheduler::new
SchedulerNew(sample_rate_hz, lookahead_ms) ==
    [lookahead_ms |-> lookahead_ms,
     events |-> <<>>,
     cursor |-> 0,
     loop_range |-> None,
     mode |-> "Demo",
     play_left |-> TRUE,
     play_right |-> TRUE,
     sample_rate_hz |-> sample_rate_hz]

\* Scheduler::set_score
set_score(s, events) == [s EXCEPT !.events = sort_points(events), !.cursor = 0]

\* events.iter().position(|event| event.tick >= tick).unwrap_or(len), 0-based
RECURSIVE first_at_or_after(_, _, _)
first_at_or_after(events, i, tick) ==
    IF i > Len(events)
    THEN Len(events)
    ELSE IF events[i].tick >= tick THEN i - 1 ELSE first_at_or_after(events, i + 1, tick)

\* Scheduler::seek
scheduler_seek(s, tick) == [s EXCEPT !.cursor = first_at_or_after(s.events, 1, tick)]

\* Scheduler::route_bus that applies the hand filter in Demo mode too
route_bus_always_filtered(s, hand) ==
    IF hand = "Left" /\ ~s.play_left
    THEN None
    ELSE IF hand = "Right" /\ ~s.play_right
         THEN None
         ELSE Some("Autopilot")

\* Scheduler::route_bus
route_bus(s, hand) ==
    IF s.mode = "Demo"
    THEN Some("Autopilot")
    ELSE IF hand = "Left" /\ ~s.play_left
         THEN None
         ELSE IF hand = "Right" /\ ~s.play_right
              THEN None
              ELSE Some("Autopilot")

\* The first loop of Scheduler::schedule: r = [s, t, emitted]
RECURSIVE schedule_loop(_, _)
schedule_loop(r, window_end_tick) ==
    IF ~(r.s.cursor < Len(r.s.events))
    THEN r
    ELSE LET event == r.s.events[r.s.cursor + 1]
         IN IF event.tick > window_end_tick
            THEN r
            ELSE IF r.s.loop_range # None /\ event.tick >= r.s.loop_range[1].end_tick
                 THEN [s |-> scheduler_seek(r.s, r.s.loop_range[1].start_tick),
                       t |-> transport_seek(r.t, r.s.loop_range[1].start_tick),
                       emitted |-> r.emitted]
                 ELSE LET b == route_bus(r.s, event.hand)
                          out == IF b = None
                                 THEN r.emitted
                                 ELSE Append(r.emitted,
                                             ScheduledEvent(tick_to_sample(r.t, event.tick),
                                                            b[1], event.event))
                      IN schedule_loop([s |-> [r.s EXCEPT !.cursor = @ + 1],
                                        t |-> r.t,
                                        emitted |-> out], window_end_tick)

\* Scheduler::schedule that scans from the first event of the score instead of
\* the cursor
schedule_from_start(s, t) ==
    schedule_loop([s |-> [s EXCEPT !.cursor = 0], t |-> t, emitted |-> <<>>],
                  sample_to_tick(t, t.position_sample
                                    + RoundDiv(s.lookahead_ms * s.sample_rate_hz, 1000)))

\* Scheduler::schedule without the loop-edge check
schedule_ignoring_loop(s, t) ==
    LET r == schedule_loop([s |-> [s EXCEPT !.loop_range = None], t |-> t, emitted |-> <<>>],
                           sample_to_tick(t, t.position_sample
                                             + RoundDiv(s.lookahead_ms * s.sample_rate_hz, 1000)))
    IN [r EXCEPT !.s.loop_range = s.loop_range]

\* Scheduler::schedule with a window that reaches a quarter note (480 ticks)
\* beyond the lookahead
schedule_past_window(s, t) ==
    schedule_loop([s |-> s, t |-> t, emitted |-> <<>>],
                  sample_to_tick(t, t.position_sample
                                    + RoundDiv(s.lookahead_ms * s.sample_rate_hz, 1000))
                  + 480)

\* Scheduler::schedule: [s, t, emitted]
schedule(s, t) ==
    LET lookahead_samples == RoundDiv(s.lookahead_ms * s.sample_rate_hz, 1000)
        window_end_sample == t.position_sample + lookahead_samples
        window_end_tick == sample_to_tick(t, window_end_sample)
    IN schedule_loop([s |-> s, t |-> t, emitted |-> <<>>], window_end_tick)

\* Scheduler::set_loop
scheduler_set_loop(s, range) == [s EXCEPT !.loop_range = range]

\* Scheduler::set_mode
set_mode(s, mode) == [s EXCEPT !.mode = mode]

\* Scheduler::set_accompaniment_route
set_accompaniment_route(s, play_left, play_right) ==
    [s EXCEPT !.play_left = play_left, !.play_right = play_right]

\* Transport::set_loop
transport_set_loop(t, range) == [t EXCEPT !.loop_range = range]

\* Transport::advance_by_samples
advance_by_samples(t, frames) ==
    IF t.state # "Playing"
    THEN t
    ELSE LET t1 == sync_to_sample_time(t, t.position_sample + frames)
         IN IF t1.loop_range # None /\ t1.position_tick >= t1.loop_range[1].end_tick
            THEN transport_seek(t1, t1.loop_range[1].start_tick)
            ELSE t1

\* Scheduler::schedule, its window: the last tick of the lookahead window
window_end(s, t) ==
    sample_to_tick(t, t.position_sample + RoundDiv(s.lookahead_ms * s.sample_rate_hz, 1000))

----------------------------------------------------------------------------
(* Waveguide piano synth                                                   *)
(* (crates/cadenza-infra-synth-waveguide-piano/src/lib.rs)                 *)
(*                                                                         *)
(* A voice's gain is its amplitude follower, in ten-thousandths; what the  *)
(* strings make of it during a render is left open: any of GainLevels.     *)
(* A sample is 0, 1 (what the voices make) or 2 (what a buffer held before).*)

MaxVoices == 2          \* voices per bus (the program: 64)
ReclaimGain == 8        \* a released voice is reclaimed below 0.0008
GainLevels == {0, ReclaimGain}
WgBuses == {"UserMonitor", "Autopilot", "MetronomeFx"}

\* Voice::new
VoiceNew ==
    [active |-> FALSE, note |-> 60, velocity |-> 0, key_down |-> FALSE,
     sustained |-> FALSE, gain |-> 0, age |-> 0]

\* Voice::reset
voice_reset(v) ==
    [v EXCEPT !.active = FALSE, !.key_down = FALSE, !.sustained = FALSE, !.gain = 0]

\* BusState::new
BusStateNew ==
    [sustain_down |-> FALSE, note_counter |-> 0, voices |-> [i \in 1..MaxVoices |-> VoiceNew]]

\* BusState::reset
bus_reset(b) ==
    [sustain_down |-> FALSE, note_counter |-> 0,
     voices |-> [i \in 1..MaxVoices |-> voice_reset(b.voices[i])]]

\* WaveguidePianoSynth::new; locked: another thread holds the mutex
WaveguideNew(sample_rate_hz) ==
    [locked |-> FALSE, sample_rate_hz |-> sample_rate_hz,
     buses |-> [b \in WgBuses |-> BusStateNew]]

\* BusState::allocate_voice: the first inactive voice, or else the first of the
\* voices with the lowest gain
allocate_voice(b) ==
    IF \E i \in 1..MaxVoices : ~b.voices[i].active
    THEN CHOOSE i \in 1..MaxVoices :
             /\ ~b.voices[i].active
             /\ \A k \in 1..(i - 1) : b.voices[k].active
    ELSE CHOOSE i \in 1..MaxVoices :
             /\ \A k \in 1..MaxVoices : b.voices[i].gain <= b.voices[k].gain
             /\ \A k \in 1..(i - 1) : b.voices[k].gain > b.voices[i].gain

\* BusState::note_on
bus_note_on(b, note, velocity) ==
    LET age == b.note_counter + 1
        idx == allocate_voice(b)
    IN [b EXCEPT !.note_counter = age,
                 !.voices[idx] = [voice_reset(@) EXCEPT !.active = TRUE, !.note = note,
                                                        !.velocity = velocity,
                                                        !.key_down = TRUE,
                                                        !.sustained = FALSE,
                                                        !.age = age]]

\* BusState::note_off that never marks a voice sustained
bus_note_off_no_sustain(b, note) ==
    [b EXCEPT !.voices =
        [i \in 1..MaxVoices |->
            IF ~@[i].active \/ @[i].note # note \/ ~@[i].key_down
            THEN @[i]
            ELSE [@[i] EXCEPT !.key_down = FALSE]]]

\* BusState::note_off
bus_note_off(b, note) ==
    [b EXCEPT !.voices =
        [i \in 1..MaxVoices |->
            IF ~@[i].active \/ @[i].note # note \/ ~@[i].key_down
            THEN @[i]
            ELSE [@[i] EXCEPT !.key_down = FALSE,
                              !.sustained = IF b.sustain_down THEN TRUE ELSE @]]]

\* BusState::sustain
bus_sustain(b, down) ==
    IF down
    THEN [b EXCEPT !.sustain_down = TRUE]
    ELSE [b EXCEPT !.sustain_down = FALSE,
                   !.voices = [i \in 1..MaxVoices |->
                                  IF @[i].active /\ ~@[i].key_down /\ @[i].sustained
                                  THEN [@[i] EXCEPT !.sustained = FALSE]
                                  ELSE @[i]]]

\* n samples of value x
Samples(n, x) == [i \in 1..n |-> x]

\* BusState::render into a pair of buffers that hold the samples out;
\* gains[i] is the gain Voice::render leaves in voice i.  [b, out]
bus_render(b, frames, out, gains) ==
    LET n == Min(frames, Len(out))
    IN IF n = 0
       THEN [b |-> b, out |-> Samples(Len(out), 0)]
       ELSE LET sounding == \E i \in 1..MaxVoices : b.voices[i].active
                rendered == [i \in 1..MaxVoices |->
                                IF b.voices[i].active
                                THEN [b.voices[i] EXCEPT !.gain = gains[i]]
                                ELSE b.voices[i]]
                reclaimed == [i \in 1..MaxVoices |->
                                 IF /\ rendered[i].active
                                    /\ ~rendered[i].key_down
                                    /\ ~rendered[i].sustained
                                    /\ rendered[i].gain < ReclaimGain
                                 THEN voice_reset(rendered[i])
                                 ELSE rendered[i]]
            IN [b |-> [b EXCEPT !.voices = reclaimed],
                out |-> [i \in 1..Len(out) |-> IF i <= n /\ sounding THEN 1 ELSE 0]]

\* SynthPort::handle_event for WaveguidePianoSynth: [w, applied]
wg_handle_event(w, bus_id, event) ==
    IF w.locked
    THEN [w |-> w, applied |-> FALSE]
    ELSE [w |-> [w EXCEPT !.buses[bus_id] =
                    CASE event.kind = "NoteOn" -> bus_note_on(@, event.note, event.velocity)
                      [] event.kind = "NoteOff" -> bus_note_off(@, event.note)
                      [] OTHER -> bus_sustain(@, event.value >= 64)],
          applied |-> TRUE]

\* SynthPort::render that tries the lock before it clears the buffers
wg_render_lock_first(w, bus_id, frames, out, gains) ==
    IF w.locked
    THEN [w |-> w, out |-> out, applied |-> FALSE]
    ELSE LET r == bus_render(w.buses[bus_id], frames, out, gains)
         IN [w |-> [w EXCEPT !.buses[bus_id] = r.b], out |-> r.out, applied |-> TRUE]

\* SynthPort::render for WaveguidePianoSynth: [w, out, applied]
wg_render(w, bus_id, frames, out, gains) ==
    IF w.locked
    THEN [w |-> w, out |-> Samples(Len(out), 0), applied |-> FALSE]
    ELSE LET r == bus_render(w.buses[bus_id], frames, out, gains)
         IN [w |-> [w EXCEPT !.buses[bus_id] = r.b], out |-> r.out, applied |-> TRUE]

\* SynthPort::set_sample_rate once it holds the mutex, which it then releases
wg_set_sample_rate(w, sample_rate_hz) ==
    [locked |-> FALSE, sample_rate_hz |-> sample_rate_hz,
     buses |-> [b \in WgBuses |-> bus_reset(w.buses[b])]]

----------------------------------------------------------------------------
(* MIDI import (crates/cadenza-domain-score/src/midi_import.rs)            *)

\* midi_event_rank of midi_import.rs
import_midi_event_rank(event) ==
    CASE event.kind = "Cc64" -> IF event.value >= 64 THEN 0 ELSE 3
      [] event.kind = "NoteOff" -> 1
      [] OTHER -> 2

\* midi_event_note_key of midi_import.rs
import_midi_event_note_key(event) == IF event.kind = "Cc64" THEN 0 ELSE event.note

\* the comparator of the two sort_by calls: a orders strictly before b
playback_before(a, b) ==
    \/ a.tick < b.tick
    \/ /\ a.tick = b.tick
       /\ \/ import_midi_event_rank(a.event) < import_midi_event_rank(b.event)
          \/ /\ import_midi_event_rank(a.event) = import_midi_event_rank(b.event)
             /\ import_midi_event_note_key(a.event) < import_midi_event_note_key(b.event)

\* one insertion of the stable sort: e goes behind the elements that do not
\* order after it
RECURSIVE insert_playback(_, _)
insert_playback(sorted, e) ==
    IF sorted = <<>>
    THEN <<e>>
    ELSE LET last == sorted[Len(sorted)]
         IN IF playback_before(e, last)
            THEN Append(insert_playback(SubSeq(sorted, 1, Len(sorted) - 1), e), last)
            ELSE Append(sorted, e)

\* Vec::sort_by with that comparator (a stable sort)
RECURSIVE sort_playback(_)
sort_playback(events) ==
    IF events = <<>>
    THEN <<>>
    ELSE insert_playback(sort_playback(SubSeq(events, 1, Len(events) - 1)),
                         events[Len(events)])

\* n copies of e
Copies(e, n) == [i \in 1..n |-> e]

\* the first loop of sanitize_note_pairs: r = [out, active, last_tick]
RECURSIVE sanitize_loop(_, _)
sanitize_loop(r, events) ==
    IF events = <<>>
    THEN r
    ELSE LET event == Head(events)
             last_tick == Max(r.last_tick, event.tick)
             kind == event.event.kind
             note == event.event.note
             next ==
                 CASE kind = "NoteOn" ->
                          [out |-> r.out
                                   \o Copies(PlaybackMidiEvent(event.tick, NoteOff(note),
                                                               event.hand),
                                             r.active[note])
                                   \o <<event>>,
                           active |-> [r.active EXCEPT ![note] = 1],
                           last_tick |-> last_tick]
                   [] kind = "NoteOff" ->
                          IF r.active[note] = 0
                          THEN [r EXCEPT !.last_tick = last_tick]
                          ELSE [out |-> Append(r.out, event),
                                active |-> [r.active EXCEPT ![note] = @ - 1],
                                last_tick |-> last_tick]
                   [] OTHER ->
                          [r EXCEPT !.out = Append(@, event), !.last_tick = last_tick]
         IN sanitize_loop(next, Tail(events))

\* the second loop of sanitize_note_pairs: the notes from note on that are
\* still counted active are closed at end_tick
RECURSIVE close_active(_, _, _)
close_active(active, note, end_tick) ==
    LET open == {n \in note..127 : active[n] > 0}
    IN IF open = {}
       THEN <<>>
       ELSE LET n == CHOOSE x \in open : \A y \in open : x <= y
            IN Copies(PlaybackMidiEvent(end_tick, NoteOff(n), "None"), active[n])
               \o close_active(active, n + 1, end_tick)

\* sanitize_note_pairs
sanitize_note_pairs(ppq, events) ==
    IF events = <<>>
    THEN events
    ELSE LET default_len == Max(ppq, 1)
             r == sanitize_loop([out |-> <<>>, active |-> [n \in 0..127 |-> 0],
                                 last_tick |-> 0], events)
             end_tick == r.last_tick + Max(default_len, 1)
         IN sort_playback(r.out \o close_active(r.active, 0, end_tick))

\* import_midi_bytes, from the events of the tracks to the playback events
import_playback_events(ppq, events) == sanitize_note_pairs(ppq, sort_playback(events))

----------------------------------------------------------------------------
(* Initial values of the components                                        *)

\* default_judge_config (app.rs)
default_judge_config ==
    [perfect |-> 30, good |-> 80, chord_roll |-> 24, wrong_note_policy |-> "DegradePerfect"]

\* SettingsDto::default; volumes in hundredths
SettingsDefault ==
    [selected_audio_out |-> FALSE,
     monitor_enabled |-> TRUE,
     master_volume |-> 80,
     bus_user_volume |-> 80,
     bus_autopilot_volume |-> 80,
     bus_metronome_volume |-> 60,
     input_offset_ms |-> 0]

\* AudioParams::new
AudioParamsNew(st) ==
    [master |-> st.master_volume,
     bus_user |-> st.bus_user_volume,
     bus_autopilot |-> st.bus_autopilot_volume,
     bus_metronome |-> st.bus_metronome_volume,
     monitor_enabled |-> st.monitor_enabled,
     playback_enabled |-> FALSE]

\* the judge fields of AppCore::new
JudgeIdle ==
    /\ judge = JudgeNew(default_judge_config)
    /\ jevents = <<>>
    /\ jcall = [op |-> "new", tick |-> 0, note |-> 0]
    /\ jcalls = 0

\* AudioClock::new, AudioGraph::new and AudioParams::new
GraphIdle ==
    /\ audio_queue = <<>>
    /\ pending = None
    /\ audio_clock = 0
    /\ stream_time = 0
    /\ synth_calls = <<>>
    /\ gblock = [start |-> 0, frames |-> 0, segments |-> <<>>]
    /\ gpushes = 0
    /\ params = AudioParamsNew(SettingsDefault)

\* AppCore::new
AppIdle ==
    /\ session_state = "Idle"
    /\ score = None
    /\ audio_stream = FALSE
    /\ audio_queue_tx = FALSE
    /\ settings = SettingsDefault
    /\ transport = TransportNew(480, 48000, <<>>)
    /\ scheduler = SchedulerNew(48000, 30)
    /\ last_cmd = "new"
    /\ last_result = "Ok"
    /\ steps = 0

\* no schedule() call observed yet
SchedIdle ==
    /\ emitted = <<>>
    /\ emitted_since = <<>>
    /\ cursor_since = 0

\* no call made on the transport yet
ProbeIdle == probe = [op |-> "new"]

\* no file imported
ImportIdle ==
    /\ smf_events = [ppq |-> 480, events |-> <<>>]
    /\ playback_events = None

\* WaveguidePianoSynth::default, not yet called
WgIdle ==
    /\ wg = WaveguideNew(48000)
    /\ wg_call = [op |-> "new"]

AuxIdle == ImportIdle /\ WgIdle

\* AppCore::new: no MIDI input open, nothing received
InputClosed ==
    /\ midi_stream = FALSE
    /\ midi_queue_rx = FALSE
    /\ midi_queue = <<>>
    /\ recent_inputs = <<>>
    /\ wall = 0
    /\ judged = <<>>
    /\ twin = [session_state |-> session_state, score |-> score,
               audio_stream |-> audio_stream, audio_queue_tx |-> audio_queue_tx,
               settings |-> settings, transport |-> transport,
               scheduler |-> scheduler, judge |-> judge, jevents |-> jevents,
               jcall |-> jcall, params |-> params, audio_queue |-> audio_queue,
               pending |-> pending, audio_clock |-> audio_clock,
               stream_time |-> stream_time, midi_stream |-> midi_stream,
               midi_queue_rx |-> midi_queue_rx, midi_queue |-> midi_queue,
               recent_inputs |-> recent_inputs, wall |-> wall, judged |-> judged]

InputIdle == AuxIdle /\ InputClosed

----------------------------------------------------------------------------
(* SpecJudge: the judge driven by arbitrary calls                          *)

MaxCalls == 4      \* judge calls per behaviour

\* TargetEvent
Target(id, tick, notes) == [id |-> id, tick |-> tick, notes |-> notes]

\* Configurations of the judge tests (windows 2/6, chord roll 3) under both
\* wrong-note policies, and one with a perfect window of 0.
JudgeConfigs ==
    {[perfect |-> 2, good |-> 6, chord_roll |-> 3, wrong_note_policy |-> "RecordOnly"],
     [perfect |-> 2, good |-> 6, chord_roll |-> 3, wrong_note_policy |-> "DegradePerfect"],
     [perfect |-> 0, good |-> 6, chord_roll |-> 8, wrong_note_policy |-> "DegradePerfect"]}

ChordTargets == <<Target(1, 300, <<60, 64>>)>>

TargetLists ==
    {ChordTargets,
     <<Target(1, 300, <<60>>), Target(2, 304, <<64>>), Target(3, 320, <<60, 60>>)>>,
     <<Target(1, 300, <<>>), Target(2, 302, <<60>>)>>}

JudgeTicks == {293, 294, 297, 300, 302, 304, 306, 307, 311, 327}
JudgeNotes == {60, 64, 65}

JudgeInit ==
    /\ judge \in {JudgeNew(c) : c \in JudgeConfigs}
    /\ jevents = <<>>
    /\ jcall = [op |-> "new", tick |-> 0, note |-> 0]
    /\ jcalls = 0
    /\ GraphIdle
    /\ AppIdle
    /\ SchedIdle
    /\ ProbeIdle
    /\ InputIdle

JudgeDo(r, op, tick, note) ==
    /\ jcalls < MaxCalls
    /\ judge' = r.j
    /\ jevents' = r.events
    /\ jcall' = [op |-> op, tick |-> tick, note |-> note]
    /\ jcalls' = jcalls + 1
    /\ UNCHANGED <<graphVars, appVars, schedVars, inputVars, auxVars>>

JudgeLoadTargets ==
    \E ts \in TargetLists : JudgeDo(load_targets(judge, ts), "load_targets", 0, 0)

JudgeOnNoteOn ==
    \E tick \in JudgeTicks, note \in JudgeNotes :
        JudgeDo(on_note_on(judge, [tick |-> tick, note |-> note, velocity |-> 100]),
                "on_note_on", tick, note)

JudgeAdvanceTo ==
    \E now \in JudgeTicks : JudgeDo(advance_to(judge, now), "advance_to", now, 0)

JudgeNext == JudgeLoadTargets \/ JudgeOnNoteOn \/ JudgeAdvanceTo

SpecJudge == JudgeInit /\ [][JudgeNext]_vars

\* the events of one type in a returned event list
EventsOf(events, type) == SelectSeq(events, LAMBDA ev : ev.type = type)


\* a step of SpecJudge that is a call of the judge
JudgeStep == jcalls' # jcalls

\* the focus state a freshly focused target starts with (build_state)
FreshMatch == [matched |-> <<>>, first_match_tick |-> None, wrong_notes |-> 0]

\* C8: a Hit is graded Perfect iff |delta_tick| <= perfect and not (policy is
\* DegradePerfect and wrong_notes > 0), otherwise Good (so under RecordOnly a
\* Perfect-timed hit stays Perfect whatever wrong_notes is); a Perfect adds
\* 100 to score and a Good 70; a Hit increments hit by one and combo by one
\* (from 0 when the same call first timed targets out); and a NoteOn of the
\* one expected pitch of the focused single-note target at exactly
\* target.tick, with no wrong note held against it, yields Hit Perfect with
\* delta_tick 0.
C8_HitGrading ==
    [][JudgeStep =>
        /\ \A i \in DOMAIN jevents' :
             jevents'[i].type = "Hit" =>
               LET h == jevents'[i]
                   missed == \E k \in 1..i : jevents'[k].type = "Miss"
               IN /\ h.grade \in {"Perfect", "Good"}
                  /\ (h.grade = "Perfect") <=>
                        (/\ Abs(h.delta_tick) <= judge.cfg.perfect
                         /\ ~(/\ judge.cfg.wrong_note_policy = "DegradePerfect"
                              /\ h.wrong_notes > 0))
                  /\ judge'.stats.score = judge.stats.score
                        + (IF h.grade = "Perfect" THEN 100 ELSE 70)
                  /\ judge'.stats.hit = judge.stats.hit + 1
                  /\ judge'.stats.combo = (IF missed THEN 0 ELSE judge.stats.combo) + 1
                  /\ judge'.stats.miss = judge.stats.miss
                        + Len(EventsOf(jevents', "Miss"))
        /\ (/\ jcall'.op = "on_note_on"
            /\ judge.idx < Len(judge.targets)
            /\ judge.state # None
            /\ Range(judge.targets[judge.idx + 1].notes) = {jcall'.note}
            /\ judge.targets[judge.idx + 1].tick = jcall'.tick
            /\ \/ judge.state[1].wrong_notes = 0
               \/ judge.cfg.wrong_note_policy = "RecordOnly")
           => \E i \in DOMAIN jevents' :
                /\ jevents'[i].type = "Hit"
                /\ jevents'[i].target_id = judge.targets[judge.idx + 1].id
                /\ jevents'[i].grade = "Perfect"
                /\ jevents'[i].delta_tick = 0
      ]_vars

\* C8 witness: a hit inside the perfect window was degraded to Good by a
\* recorded wrong note.
C8_Witness ==
    /\ jcall.op = "on_note_on"
    /\ judge.cfg.wrong_note_policy = "DegradePerfect"
    /\ \E i \in DOMAIN jevents :
         /\ jevents[i].type = "Hit"
         /\ jevents[i].grade = "Good"
         /\ jevents[i].wrong_notes > 0
         /\ Abs(jevents[i].delta_tick) <= judge.cfg.perfect
         /\ judge.stats.score = 70

\* the judge configuration of the chord-roll test
ChordRollConfig ==
    [perfect |-> 2, good |-> 6, chord_roll |-> 3, wrong_note_policy |-> "RecordOnly"]

\* C9: on_note_on emits a Hit for a target exactly in the call whose note
\* completes the matched set (an expected, not yet matched pitch, inside the
\* good window and within chord_roll of the first match, with all other
\* expected pitches matched before), never for a target with no expected
\* pitch, and a call that emits no Hit leaves the focused target incomplete
\* and adds at most that one accepted pitch to matched.  For target
\* {tick 300, notes [60, 64]}: NoteOn 60 at 300 matches without resolving,
\* and NoteOn 64 at 302 then yields one Hit, Perfect, delta 0.
C9_ResolveOnCompletion ==
    [][(JudgeStep /\ jcall'.op = "on_note_on") =>
        LET t == jcall'.tick
            n == jcall'.note
            hits == EventsOf(jevents', "Hit")
            nMiss == Len(EventsOf(jevents', "Miss"))
            k == judge.idx + nMiss
            base == IF nMiss = 0 /\ judge.state # None
                    THEN judge.state[1]
                    ELSE FreshMatch
            good == judge.cfg.good
            Accepts(T) ==
                /\ n \in Range(T.notes)
                /\ n \notin DOMAIN base.matched
                /\ T.tick - good <= t
                /\ t <= T.tick + good
                /\ \/ base.first_match_tick = None
                   \/ Abs(t - base.first_match_tick[1]) <= judge.cfg.chord_roll
        IN /\ Len(hits) <= 1
           /\ Len(hits) = 1 =>
                /\ k < Len(judge.targets)
                /\ hits[1].target_id = judge.targets[k + 1].id
                /\ Range(judge.targets[k + 1].notes) # {}
                /\ Accepts(judge.targets[k + 1])
                /\ (DOMAIN base.matched) \cup {n} = Range(judge.targets[k + 1].notes)
                /\ judge'.idx = k + 1
           /\ Len(hits) = 0 =>
                /\ judge'.idx = k
                /\ judge'.state # None =>
                     LET st == judge'.state[1]
                     IN /\ ~(st.expected # {} /\ DOMAIN st.matched = st.expected)
                        /\ \/ /\ DOMAIN st.matched = DOMAIN base.matched
                              /\ \A m \in DOMAIN st.matched : st.matched[m] = base.matched[m]
                           \/ /\ Accepts(judge.targets[k + 1])
                              /\ DOMAIN st.matched = (DOMAIN base.matched) \cup {n}
                              /\ st.matched[n] = t
                              /\ \A m \in DOMAIN base.matched :
                                   st.matched[m] = base.matched[m]
           /\ (/\ judge.cfg = ChordRollConfig
               /\ judge.targets = ChordTargets
               /\ judge.idx = 0
               /\ judge.state # None
               /\ DOMAIN judge.state[1].matched = {}
               /\ t = 300 /\ n = 60)
              => /\ hits = <<>>
                 /\ judge'.state # None
                 /\ DOMAIN judge'.state[1].matched = {60}
                 /\ judge'.state[1].matched[60] = 300
                 /\ judge'.state[1].first_match_tick = Some(300)
           /\ (/\ judge.cfg = ChordRollConfig
               /\ judge.targets = ChordTargets
               /\ judge.idx = 0
               /\ judge.state # None
               /\ DOMAIN judge.state[1].matched = {60}
               /\ judge.state[1].matched[60] = 300
               /\ t = 302 /\ n = 64)
              => /\ Len(hits) = 1
                 /\ hits[1].target_id = 1
                 /\ hits[1].grade = "Perfect"
                 /\ hits[1].delta_tick = 0
      ]_vars

\* C9 witness: the chord {60, 64} at tick 300 was resolved by NoteOn 64 at
\* tick 302 after 60 had been matched at tick 300.
C9_Witness ==
    /\ judge.cfg = ChordRollConfig
    /\ judge.targets = ChordTargets
    /\ jcall = [op |-> "on_note_on", tick |-> 302, note |-> 64]
    /\ judge.idx = 1
    /\ \E i \in DOMAIN jevents :
         /\ jevents[i].type = "Hit"
         /\ jevents[i].grade = "Perfect"
         /\ jevents[i].delta_tick = 0
         /\ jevents[i].target_id = 1

\* C10: advance_to(now) walks the targets from the focused one in list
\* order, emits exactly one Miss (reason Timeout) for each consecutive target
\* with tick + good_window < now and stops at the first target that is not
\* past its window; every such Miss is followed by statistics with combo 0
\* and miss one higher; no target with tick + good_window >= now gets a Miss
\* and no Hit is emitted.
C10_AdvanceMisses ==
    [][(JudgeStep /\ jcall'.op = "advance_to") =>
        LET now == jcall'.tick
            misses == EventsOf(jevents', "Miss")
            stats == EventsOf(jevents', "Stats")
            n == Len(misses)
            good == judge.cfg.good
        IN /\ EventsOf(jevents', "Hit") = <<>>
           /\ judge.idx + n <= Len(judge.targets)
           /\ judge'.idx = judge.idx + n
           /\ judge'.targets = judge.targets
           /\ \A k \in 1..n :
                /\ misses[k].target_id = judge.targets[judge.idx + k].id
                /\ misses[k].reason = "Timeout"
                /\ judge.targets[judge.idx + k].tick + good < now
           /\ judge'.idx < Len(judge.targets) =>
                judge.targets[judge'.idx + 1].tick + good >= now
           /\ Len(stats) = n
           /\ \A k \in 1..n : stats[k].combo = 0 /\ stats[k].miss = judge.stats.miss + k
           /\ judge'.stats.miss = judge.stats.miss + n
           /\ judge'.stats.combo = (IF n > 0 THEN 0 ELSE judge.stats.combo)
           /\ judge'.stats.hit = judge.stats.hit
           /\ judge'.stats.score = judge.stats.score
      ]_vars

\* C10 witness: one advance_to timed out two targets in a row and stopped at
\* a third target that is not yet past its window.
C10_Witness ==
    /\ jcall.op = "advance_to"
    /\ Len(EventsOf(jevents, "Miss")) = 2
    /\ judge.idx < Len(judge.targets)
    /\ judge.stats.combo = 0
    /\ judge.stats.miss = 2


----------------------------------------------------------------------------
(* SpecGraph: the audio graph alone, fed by a producer that pushes any     *)
(* event at any time, with the playback flag switched at any time          *)

BlockFrames == 8        \* frames per audio callback
GraphMaxBlocks == 2     \* audio callbacks per behaviour
GraphMaxPushes == 3     \* events pushed per behaviour

\* Events of every kind for the first block, and a few for the blocks after it.
GraphLaterTimes == {BlockFrames + 1, 2 * BlockFrames + 1}

GraphBusEvents ==
    {<<"UserMonitor", NoteOn(60, 100)>>, <<"Autopilot", NoteOn(60, 100)>>,
     <<"UserMonitor", NoteOff(60)>>, <<"UserMonitor", Cc64(127)>>,
     <<"UserMonitor", Cc64(0)>>, <<"UserMonitor", NoteOn(62, 100)>>}

GraphLaterBusEvents ==
    {<<"Autopilot", NoteOn(60, 100)>>, <<"UserMonitor", NoteOff(60)>>,
     <<"UserMonitor", Cc64(0)>>}

GraphEvents ==
    {ScheduledEvent(2, be[1], be[2]) : be \in GraphBusEvents}
    \cup {ScheduledEvent(t, be[1], be[2]) : t \in GraphLaterTimes, be \in GraphLaterBusEvents}

GraphInit == JudgeIdle /\ GraphIdle /\ AppIdle /\ SchedIdle /\ ProbeIdle /\ InputIdle

\* Producer::push of one event by the control side
GraphPush ==
    \E ev \in GraphEvents :
        /\ gpushes < GraphMaxPushes
        /\ audio_queue' = Append(audio_queue, ev)
        /\ gpushes' = gpushes + 1
        /\ UNCHANGED <<judgeVars, appVars, schedVars, inputVars, auxVars, pending, audio_clock, stream_time,
                       synth_calls, gblock, params>>

\* AudioParams::set_playback_enabled
GraphSetPlayback ==
    \E b \in BOOLEAN :
        /\ params' = [params EXCEPT !.playback_enabled = b]
        /\ UNCHANGED <<judgeVars, appVars, schedVars, inputVars, auxVars, audio_queue, pending, audio_clock,
                       stream_time, synth_calls, gblock, gpushes>>

\* One callback of the backend: AudioGraph::render on the stream's sample
\* counter, which the backend then advances by the frames rendered.
GraphRender ==
    /\ stream_time < GraphMaxBlocks * BlockFrames
    /\ LET r == render(pending, audio_queue, stream_time, BlockFrames,
                       params.playback_enabled)
       IN /\ pending' = r.pending
          /\ audio_queue' = r.queue
          /\ synth_calls' = r.calls
          /\ audio_clock' = r.clock
          /\ gblock' = [start |-> stream_time, frames |-> BlockFrames,
                        segments |-> r.segments]
    /\ stream_time' = stream_time + BlockFrames
    /\ UNCHANGED <<judgeVars, appVars, schedVars, inputVars, auxVars, gpushes, params>>

GraphNext == GraphPush \/ GraphSetPlayback \/ GraphRender

SpecGraph == GraphInit /\ [][GraphNext]_vars

\* a step that is one audio callback: only the backend advances the stream's
\* sample counter
RenderStep == stream_time' > stream_time

\* what the graph held when the callback began, oldest first, and what the
\* callback took out of it
GraphInput == pending \o audio_queue
GraphTaken == SubSeq(GraphInput, 1, Len(GraphInput) - Len(pending' \o audio_queue'))

\* the handle_event calls of a callback as the events they were queued as
CallEvents(calls) ==
    [i \in 1..Len(calls) |->
        ScheduledEvent(calls[i].sample_time, calls[i].bus, calls[i].event)]

RECURSIVE IsSubsequence(_, _)
IsSubsequence(s, t) ==
    IF s = <<>>
    THEN TRUE
    ELSE IF t = <<>>
         THEN FALSE
         ELSE IF Head(s) = Head(t)
              THEN IsSubsequence(Tail(s), Tail(t))
              ELSE IsSubsequence(s, Tail(t))


\* the rank and note key by which the events of one callback are ordered
DispatchRank(event) ==
    IF event.kind = "Cc64" /\ event.value >= 64 THEN 0
    ELSE IF event.kind = "NoteOff" THEN 1
    ELSE IF event.kind = "NoteOn" THEN 2
    ELSE 3

DispatchKey(ev) ==
    <<ev.sample_time, DispatchRank(ev.event),
      IF ev.event.kind \in {"NoteOn", "NoteOff"} THEN ev.event.note ELSE 0>>

KeyLeq(a, b) ==
    \/ a[1] < b[1]
    \/ a[1] = b[1] /\ a[2] < b[2]
    \/ a[1] = b[1] /\ a[2] = b[2] /\ a[3] <= b[3]

WithKey(events, k) == SelectSeq(events, LAMBDA ev : DispatchKey(ev) = k)

\* C5: within one audio callback the handle_event calls come in
\* non-decreasing order of (sample_time, rank, note_key), with rank 0 for
\* pedal down, 1 for NoteOff, 2 for NoteOn and 3 for pedal up; the calls of
\* one key come in the order their events were queued; and NoteOn(60),
\* NoteOff(60), Cc64(127) queued in that order for one sample_time reach the
\* synth as Cc64(127), NoteOff(60), NoteOn(60).
C5_DispatchOrder ==
    [][RenderStep =>
        LET calls == CallEvents(synth_calls')
        IN /\ \A i \in 1..(Len(calls) - 1) :
                  KeyLeq(DispatchKey(calls[i]), DispatchKey(calls[i + 1]))
           /\ \A i \in 1..Len(calls) :
                  IsSubsequence(WithKey(calls, DispatchKey(calls[i])),
                                WithKey(GraphTaken, DispatchKey(calls[i])))
           /\ \A t \in 0..(stream_time' - 1), b \in Buses :
                  (/\ pending = None
                   /\ b = "UserMonitor" \/ params.playback_enabled
                   /\ audio_queue = <<ScheduledEvent(t, b, NoteOn(60, 100)),
                                      ScheduledEvent(t, b, NoteOff(60)),
                                      ScheduledEvent(t, b, Cc64(127))>>)
                  => [i \in 1..Len(calls) |-> calls[i].event]
                         = <<Cc64(127), NoteOff(60), NoteOn(60, 100)>>
    ]_vars

\* C5 witness: a callback has drained the graph and dispatched pedal down,
\* NoteOff(60) and NoteOn(60) of one sample_time, in that order.
C5_Witness ==
    /\ stream_time > 0
    /\ Len(synth_calls) = 3
    /\ [i \in 1..3 |-> synth_calls[i].event] = <<Cc64(127), NoteOff(60), NoteOn(60, 100)>>
    /\ \A i \in 1..3 : synth_calls[i].sample_time = synth_calls[1].sample_time
    /\ audio_queue = <<>>
    /\ pending = None

\* every queued event lies in the block [start, end) of the callback
QueuedInBlock ==
    \A i \in 1..Len(audio_queue) :
        /\ stream_time <= audio_queue[i].sample_time
        /\ audio_queue[i].sample_time < stream_time'

\* a score-driven NoteOn while playback is disabled
ScoreNoteOnMuted(ev) ==
    /\ ~params.playback_enabled
    /\ ev.bus \in {"Autopilot", "MetronomeFx"}
    /\ ev.event.kind = "NoteOn"

\* C6 as stated: with N events in the queue when the callback begins, all
\* inside its block, the callback makes N handle_event calls.
C6_CallsEqualQueued ==
    [][(RenderStep /\ QueuedInBlock) => Len(synth_calls') = Len(audio_queue)]_vars

\* C6 as amended: with N events in the queue when the callback begins, all
\* inside its block, the callback makes no call if the graph's pending slot
\* holds an event at or after the block's end; otherwise it makes one call
\* for each of the N events and for the pending event, if there is one,
\* except the NoteOns on Autopilot or MetronomeFx while playback is disabled.
C6_CallsEqualDispatched ==
    [][(RenderStep /\ QueuedInBlock) =>
        Len(synth_calls') =
            IF pending # None /\ pending[1].sample_time >= stream_time'
            THEN 0
            ELSE Cardinality({i \in 1..Len(GraphInput) : ~ScoreNoteOnMuted(GraphInput[i])})
    ]_vars

\* C6 witness: a callback with playback disabled has made two calls, both for
\* events inside its block, and has left nothing behind.
C6_Witness ==
    /\ stream_time > 0
    /\ ~params.playback_enabled
    /\ Len(synth_calls) = 2
    /\ \A i \in 1..2 :
           /\ gblock.start <= synth_calls[i].sample_time
           /\ synth_calls[i].sample_time < gblock.start + gblock.frames
    /\ audio_queue = <<>>
    /\ pending = None


----------------------------------------------------------------------------
(* AppCore (crates/cadenza-core/src/app.rs)                                *)
(*                                                                         *)
(* A handler is an operator on a record of AppCore's fields and of what    *)
(* it shares with the audio thread; an action runs one handler on the      *)
(* current state and stores the record back.  No MIDI input is open.       *)

NumNotes == 2           \* MIDI notes are 0..NumNotes-1 (the program: 0..127)
QueueCap == 16          \* capacity of the ring buffer (the program: 4096)
CallbackFrames == 512   \* frames per audio callback
MidiQueueCap == 2        \* capacity of the MIDI ring buffer (the program: 2048)
MaxSteps == 6           \* commands, ticks and callbacks per behaviour

\* the sample rate of the devices' default configuration (and the fallback)
DeviceSampleRate == 48000


\* build_demo_score: the C major scale, one quarter note each
DemoNotes == <<60, 62, 64, 65, 67, 69, 71, 72>>
build_demo_score ==
    [ppq |-> 480,
     tempo_map |-> <<[tick |-> 0, us_per_quarter |-> 500000]>>,
     playback_events |->
         [i \in 1..(2 * Len(DemoNotes)) |->
             IF i % 2 = 1
             THEN PlaybackMidiEvent(((i - 1) \div 2) * 480,
                                    NoteOn(DemoNotes[(i + 1) \div 2], 92), "None")
             ELSE PlaybackMidiEvent((i \div 2) * 480, NoteOff(DemoNotes[i \div 2]), "None")],
     targets |-> [i \in 1..Len(DemoNotes) |-> Target(i, (i - 1) * 480, <<DemoNotes[i]>>)]]

\* what import_midi_path returns for a two-note file, one note per hand
ImportedScore ==
    [ppq |-> 480,
     tempo_map |-> <<[tick |-> 0, us_per_quarter |-> 500000]>>,
     playback_events |-> <<PlaybackMidiEvent(0, NoteOn(0, 80), "Left"),
                           PlaybackMidiEvent(10, NoteOff(0), "Left"),
                           PlaybackMidiEvent(10, NoteOn(1, 80), "Right"),
                           PlaybackMidiEvent(20, NoteOff(1), "Right")>>,
     targets |-> <<Target(1, 0, <<0>>), Target(2, 10, <<1>>)>>]

\* ScoreSource as the commands give it: the demo, a file that imports, and a
\* file the importer rejects
ScoreSources == {"InternalDemo", "MidiFile", "MidiFileUnreadable"}

\* what the audio port does when AppCore needs a device: it lists none, it
\* fails to open the stream, or it opens it
AudioEnvs == {"NoDevice", "OpenFails", "Ok"}

\* the fields of AppCore and of the objects it shares with the audio thread
App ==
    [session_state |-> session_state, score |-> score,
     audio_stream |-> audio_stream, audio_queue_tx |-> audio_queue_tx,
     settings |-> settings, transport |-> transport, scheduler |-> scheduler,
     judge |-> judge, jevents |-> jevents, jcall |-> jcall,
     params |-> params, audio_queue |-> audio_queue, pending |-> pending,
     audio_clock |-> audio_clock, stream_time |-> stream_time,
     midi_stream |-> midi_stream, midi_queue_rx |-> midi_queue_rx,
     midi_queue |-> midi_queue, recent_inputs |-> recent_inputs,
     wall |-> wall, judged |-> judged]

Ok(a) == [a |-> a, result |-> "Ok"]
Err(a, e) == [a |-> a, result |-> e]

\* A mutant of push_all: a push into a full buffer evicts the oldest event.
push_all_evicting(queue, events) ==
    LET all == queue \o events
    IN SubSeq(all, Max(1, Len(all) - QueueCap + 1), Len(all))

\* Producer::push for each event in turn; a push into a full buffer fails and
\* the event is dropped
push_all(queue, events) ==
    queue \o SubSeq(events, 1, Min(Len(events), QueueCap - Len(queue)))

\* flush events with the UserMonitor bus left out
flush_events_autopilot_only(now) ==
    [i \in 1..NumNotes |-> ScheduledEvent(now, "Autopilot", NoteOff(i - 1))]
    \o <<ScheduledEvent(now, "Autopilot", Cc64(0))>>

\* the events flush_audio_notes builds
flush_events(now) ==
    [i \in 1..(2 * NumNotes) |->
        ScheduledEvent(now, IF i % 2 = 1 THEN "Autopilot" ELSE "UserMonitor",
                       NoteOff((i - 1) \div 2))]
    \o <<ScheduledEvent(now, "Autopilot", Cc64(0)),
         ScheduledEvent(now, "UserMonitor", Cc64(0))>>

\* AppCore::flush_audio_notes
flush_audio_notes(a) ==
    IF ~a.audio_queue_tx
    THEN a
    ELSE [a EXCEPT !.audio_queue = push_all(@, flush_events(a.audio_clock))]

\* AppCore::schedule_autopilot
schedule_autopilot(a) ==
    IF a.session_state # "Running" \/ ~a.audio_queue_tx
    THEN a
    ELSE LET r == schedule(a.scheduler, a.transport)
         IN [a EXCEPT !.scheduler = r.s, !.transport = r.t,
                      !.audio_queue = push_all(@, r.emitted)]


\* AppCore::open_audio_output, without a config override; opens says
\* whether the port's open_output succeeds.  The old stream is closed first;
\* the new ring buffer and graph replace the old ones only on success, and on
\* failure the producer of the old, now unread, ring buffer stays.
open_audio_output(a, opens) ==
    LET new_scheduler == SchedulerNew(DeviceSampleRate, 30)
        a1 == [a EXCEPT
                 !.audio_stream = FALSE,
                 !.pending = None,
                 !.stream_time = 0,
                 !.transport = set_origin_sample(set_sample_rate(@, DeviceSampleRate), 0),
                 !.scheduler = IF a.score # None
                               THEN set_score(new_scheduler, a.score[1].playback_events)
                               ELSE new_scheduler,
                 !.audio_clock = 0]
    IN IF ~opens
       THEN Err(a1, "Audio")
       ELSE Ok([a1 EXCEPT
                  !.audio_stream = TRUE,
                  !.audio_queue_tx = TRUE,
                  !.audio_queue = <<>>,
                  !.settings.selected_audio_out = TRUE,
                  !.params.playback_enabled = (a.session_state = "Running")])

\* AppCore::ensure_audio_output_open
ensure_audio_output_open(a, env) ==
    IF a.audio_stream
    THEN Ok(a)
    ELSE IF ~a.settings.selected_audio_out /\ env = "NoDevice"
         THEN Err(a, "Audio")
         ELSE open_audio_output(a, env = "Ok")

\* AppCore::apply_score
apply_score(a, sc) ==
    LET j == load_targets(a.judge, sc.targets)
    IN [a EXCEPT
          !.transport = transport_seek(update_tempo_map(@, sc.tempo_map), 0),
          !.judge = j.j,
          !.jevents = j.events,
          !.jcall = [op |-> "load_targets", tick |-> 0, note |-> 0],
          !.scheduler = set_score(@, sc.playback_events),
          !.score = Some(sc),
          !.session_state = "Ready",
          !.params.playback_enabled = FALSE]

\* A mutant of load_score: the transport is rewound before the import.
load_score_rewinding(a, source) ==
    IF source = "MidiFileUnreadable"
    THEN Err([a EXCEPT !.transport = transport_seek(@, 0)], "ScoreLoad")
    ELSE Ok(apply_score(a, IF source = "InternalDemo"
                           THEN build_demo_score
                           ELSE ImportedScore))

\* AppCore::load_score
load_score(a, source) ==
    IF source = "MidiFileUnreadable"
    THEN Err(a, "ScoreLoad")
    ELSE Ok(apply_score(a, IF source = "InternalDemo"
                           THEN build_demo_score
                           ELSE ImportedScore))

\* Command::StartPractice once the state and the score have been checked
start_checked(a, env) ==
    LET e == ensure_audio_output_open(a, env)
    IN IF e.result # "Ok"
       THEN e
       ELSE LET t1 == align_to_sample_time(e.a.transport, e.a.audio_clock)
                a1 == flush_audio_notes(
                          [e.a EXCEPT !.transport = t1,
                                      !.scheduler = scheduler_seek(@, t1.position_tick)])
            IN Ok(schedule_autopilot(
                      [a1 EXCEPT !.session_state = "Running",
                                 !.transport = transport_play(@),
                                 !.params.playback_enabled = TRUE]))

\* A mutant of start_practice: the score is not asked for.
start_practice_unchecked(a, env) ==
    IF a.session_state = "Running" THEN Ok(a) ELSE start_checked(a, env)

\* Command::StartPractice
start_practice(a, env) ==
    IF a.session_state = "Running"
    THEN Ok(a)
    ELSE IF a.score = None
         THEN Err(a, "InvalidState")
         ELSE start_checked(a, env)

\* A mutant of pause_practice: the playback flag is left as it was.
pause_practice_unmuted(a) ==
    flush_audio_notes([a EXCEPT !.session_state = "Paused",
                                !.transport = transport_pause(@)])

\* Command::PausePractice
pause_practice(a) ==
    flush_audio_notes([a EXCEPT !.session_state = "Paused",
                                !.transport = transport_pause(@),
                                !.params.playback_enabled = FALSE])

\* Command::StopPractice
stop_practice(a) ==
    LET t1 == transport_stop(a.transport)
    IN flush_audio_notes([a EXCEPT !.session_state = "Ready",
                                   !.transport = t1,
                                   !.scheduler = scheduler_seek(@, t1.position_tick),
                                   !.params.playback_enabled = FALSE])

\* A mutant of seek: the judge's focus goes back to the first target.
seek_refocusing(a, tick) ==
    flush_audio_notes([a EXCEPT !.transport = transport_seek(@, tick),
                                !.scheduler = scheduler_seek(@, tick),
                                !.judge = load_targets(@, @.targets).j])

\* Command::Seek
seek(a, tick) ==
    flush_audio_notes([a EXCEPT !.transport = transport_seek(@, tick),
                                !.scheduler = scheduler_seek(@, tick)])

\* AppCore::set_loop
set_loop(a, range) ==
    [a EXCEPT !.scheduler.loop_range = range, !.transport.loop_range = range]

\* Command::SetBusVolume
set_bus_volume(a, b, volume) ==
    CASE b = "UserMonitor" ->
             [a EXCEPT !.settings.bus_user_volume = volume, !.params.bus_user = volume]
      [] b = "Autopilot" ->
             [a EXCEPT !.settings.bus_autopilot_volume = volume,
                       !.params.bus_autopilot = volume]
      [] OTHER ->
             [a EXCEPT !.settings.bus_metronome_volume = volume,
                       !.params.bus_metronome = volume]

\* AppCore::sync_transport
sync_transport(a) ==
    IF a.session_state # "Running"
    THEN a
    ELSE [a EXCEPT !.transport = sync_to_sample_time(@, a.audio_clock)]

\* AppCore::advance_judge
advance_judge(a) ==
    IF a.session_state # "Running"
    THEN a
    ELSE LET j == advance_to(a.judge, a.transport.position_tick)
         IN [a EXCEPT !.judge = j.j, !.jevents = j.events,
                      !.jcall = [op |-> "advance_to", tick |-> a.transport.position_tick,
                                 note |-> 0]]

\* PlayerEvent (cadenza-ports/src/midi.rs): the event and the instant it
\* was received at, in milliseconds of the wall clock
PlayerEvent(at, event) == [at |-> at, event |-> event]

\* the capacity of AppCore.recent_inputs
RecentInputsCap == 20

\* AppCore::update_clock_anchor: the anchor a tick takes before it reads the
\* MIDI queue; only that tick reads it
clock_anchor(a) ==
    IF ~a.audio_stream
    THEN None
    ELSE Some([at |-> a.wall, sample_time |-> a.audio_clock])

\* AppCore::estimate_sample_time
estimate_sample_time(a, anchor, at) ==
    IF anchor = None
    THEN a.audio_clock
    ELSE LET sample_rate_hz == Max(a.transport.sample_rate_hz, 1)
         IN IF at >= anchor[1].at
            THEN anchor[1].sample_time
                 + RoundDiv((at - anchor[1].at) * sample_rate_hz, 1000)
            ELSE saturating_sub(anchor[1].sample_time,
                                RoundDiv((anchor[1].at - at) * sample_rate_hz, 1000))

\* A mutant of map_player_event: the input offset also delays the sample
\* time the monitor event is scheduled at.
map_player_event_offset_audio(a, anchor, event) ==
    LET sample_time == estimate_sample_time(a, anchor, event.at)
        offset_ticks == ms_to_ticks(a.transport, a.settings.input_offset_ms)
    IN [tick |-> IF a.session_state = "Running"
                 THEN sample_to_tick(a.transport, sample_time) + offset_ticks
                 ELSE a.transport.position_tick + offset_ticks,
        sample_time |-> Max(0, sample_time
                               + (a.settings.input_offset_ms * a.transport.sample_rate_hz)
                                 \div 1000)]

\* AppCore::map_player_event
map_player_event(a, anchor, event) ==
    LET sample_time == estimate_sample_time(a, anchor, event.at)
        offset_ticks == ms_to_ticks(a.transport, a.settings.input_offset_ms)
    IN [tick |-> IF a.session_state = "Running"
                 THEN sample_to_tick(a.transport, sample_time) + offset_ticks
                 ELSE a.transport.position_tick + offset_ticks,
        sample_time |-> sample_time]

\* AppCore::record_recent_input
record_recent_input(a, event) ==
    [a EXCEPT !.recent_inputs =
        (IF Len(@) >= RecentInputsCap THEN Tail(@) ELSE @) \o <<event>>]

\* the match on the event in route_player_event: a NoteOn goes to the judge
\* (j is bound to what on_note_on returns)
judge_player_event(a, event, tick) ==
    IF event.kind = "NoteOn"
    THEN CHOOSE r \in {[a EXCEPT !.judge = j.j, !.jevents = j.events,
                                 !.jcall = [op |-> "on_note_on", tick |-> tick,
                                            note |-> event.note],
                                 !.judged = Append(@, [tick |-> tick, note |-> event.note,
                                                       velocity |-> event.velocity])] :
                           j \in {on_note_on(a.judge, [tick |-> tick, note |-> event.note,
                                                       velocity |-> event.velocity])}} : TRUE
    ELSE a

\* AppCore::route_player_event (x is bound to the application after the match)
route_player_event(a, event, tick, sample_time) ==
    CHOOSE r \in {IF x.settings.monitor_enabled
                  THEN [x EXCEPT !.audio_queue =
                           push_all(@, <<ScheduledEvent(sample_time, "UserMonitor", event)>>)]
                  ELSE x : x \in {judge_player_event(a, event, tick)}} : TRUE

\* the body of the loop of process_midi_inputs, for one event it popped
route_popped(a, anchor, event) ==
    LET a1 == record_recent_input(a, event.event)
        m == map_player_event(a1, anchor, event)
    IN route_player_event(a1, event.event, m.tick, m.sample_time)

\* the loop of process_midi_inputs over the events it popped (x is bound to
\* the application after the first of them)
RECURSIVE route_pending(_, _, _)
route_pending(a, anchor, events) ==
    IF events = <<>>
    THEN a
    ELSE CHOOSE r \in {route_pending(x, anchor, Tail(events)) :
                           x \in {route_popped(a, anchor, Head(events))}} : TRUE

\* AppCore::process_midi_inputs; judged restarts with every tick
process_midi_inputs(a, anchor) ==
    LET a0 == [a EXCEPT !.judged = <<>>]
    IN IF ~a0.midi_queue_rx
       THEN a0
       ELSE IF ~a0.audio_queue_tx
            THEN a0
            ELSE route_pending([a0 EXCEPT !.midi_queue = <<>>], anchor, a0.midi_queue)

\* AppCore::tick
AppCore_tick(a) ==
    CHOOSE r \in {schedule_autopilot(advance_judge(x)) :
                     x \in {process_midi_inputs(sync_transport(a), clock_anchor(a))}} :
        TRUE

\* AppCore::open_midi_input; opens says whether the port's open_input
\* succeeds.  The old stream is closed first; the new ring buffer replaces
\* the old one only on success.
open_midi_input(a, opens) ==
    LET a1 == [a EXCEPT !.midi_stream = FALSE]
    IN IF ~opens
       THEN Err(a1, "Midi")
       ELSE Ok([a1 EXCEPT !.midi_stream = TRUE, !.midi_queue_rx = TRUE,
                          !.midi_queue = <<>>])

\* Command::SetMonitorEnabled
set_monitor_enabled(a, enabled) ==
    [a EXCEPT !.settings.monitor_enabled = enabled,
              !.params.monitor_enabled = enabled]

\* Command::SetInputOffsetMs
set_input_offset_ms(a, ms) == [a EXCEPT !.settings.input_offset_ms = ms]

\* the callback open_midi_input gives the port, called with one event at
\* the instant at: the event is dropped when the producer's lock is held
\* (contended) or the ring buffer is full
midi_callback(a, at, event, contended) ==
    LET a1 == [a EXCEPT !.wall = at]
    IN IF contended \/ Len(a.midi_queue) >= MidiQueueCap
       THEN a1
       ELSE [a1 EXCEPT !.midi_queue = Append(@, PlayerEvent(at, event))]

\* one callback of the open audio stream: AudioGraph::render on the
\* stream's sample counter, which the backend then advances
audio_callback(a) ==
    LET r == render(a.pending, a.audio_queue, a.stream_time, CallbackFrames,
                    a.params.playback_enabled)
    IN [a EXCEPT !.pending = r.pending, !.audio_queue = r.queue,
                 !.audio_clock = r.clock,
                 !.stream_time = a.stream_time + CallbackFrames]


----------------------------------------------------------------------------
(* Spec: AppCore under any sequence of commands and control ticks, with    *)
(* the backend's audio callbacks in between                                *)

SeekTicks == {10, 480}
LoopRanges == {None, Some([start_tick |-> 0, end_tick |-> 10])}
BusVolumes == {0, 50}

Init == JudgeIdle /\ GraphIdle /\ AppIdle /\ SchedIdle /\ ProbeIdle /\ InputIdle

\* store the record a handler returned, with the handler's name and result
CommitRun(a, cmd, result) ==
    /\ steps < MaxSteps
    /\ session_state' = a.session_state
    /\ score' = a.score
    /\ audio_stream' = a.audio_stream
    /\ audio_queue_tx' = a.audio_queue_tx
    /\ settings' = a.settings
    /\ transport' = a.transport
    /\ scheduler' = a.scheduler
    /\ judge' = a.judge
    /\ jevents' = a.jevents
    /\ jcall' = a.jcall
    /\ params' = a.params
    /\ audio_queue' = a.audio_queue
    /\ pending' = a.pending
    /\ audio_clock' = a.audio_clock
    /\ stream_time' = a.stream_time
    /\ midi_stream' = a.midi_stream
    /\ midi_queue_rx' = a.midi_queue_rx
    /\ midi_queue' = a.midi_queue
    /\ recent_inputs' = a.recent_inputs
    /\ wall' = a.wall
    /\ judged' = a.judged
    /\ last_cmd' = cmd
    /\ last_result' = result
    /\ steps' = steps + 1
    /\ UNCHANGED <<jcalls, synth_calls, gblock, gpushes, schedVars, auxVars>>

Commit(a, cmd, result) == CommitRun(a, cmd, result) /\ twin' = twin

LoadScore ==
    \E source \in ScoreSources :
        LET r == load_score(App, source) IN Commit(r.a, "LoadScore", r.result)

StartPractice ==
    \E env \in AudioEnvs :
        LET r == start_practice(App, env) IN Commit(r.a, "StartPractice", r.result)

PausePractice == Commit(pause_practice(App), "PausePractice", "Ok")

StopPractice == Commit(stop_practice(App), "StopPractice", "Ok")

Seek == \E t \in SeekTicks : Commit(seek(App, t), "Seek", "Ok")

SetLoop == \E range \in LoopRanges : Commit(set_loop(App, range), "SetLoop", "Ok")

SelectAudioOutput ==
    \E opens \in BOOLEAN :
        LET r == open_audio_output(App, opens)
        IN Commit(r.a, "SelectAudioOutput", r.result)

SetBusVolume ==
    \E b \in {"UserMonitor", "Autopilot"}, volume \in BusVolumes :
        Commit(set_bus_volume(App, b, volume), "SetBusVolume", "Ok")

Tick == Commit(AppCore_tick(App), "Tick", "Ok")

\* One callback of the open stream: AudioGraph::render on the stream's sample
\* counter, which the backend then advances by the frames rendered.
AudioCallback ==
    /\ steps < MaxSteps
    /\ audio_stream
    /\ LET r == render(pending, audio_queue, stream_time, CallbackFrames,
                       params.playback_enabled)
       IN /\ pending' = r.pending
          /\ audio_queue' = r.queue
          /\ synth_calls' = r.calls
          /\ audio_clock' = r.clock
          /\ gblock' = [start |-> stream_time, frames |-> CallbackFrames,
                        segments |-> r.segments]
    /\ stream_time' = stream_time + CallbackFrames
    /\ last_cmd' = "AudioCallback"
    /\ last_result' = "Ok"
    /\ steps' = steps + 1
    /\ UNCHANGED <<judgeVars, schedVars, inputVars, auxVars, gpushes, params, session_state, score, audio_stream,
                   audio_queue_tx, settings, transport, scheduler>>

Next ==
    \/ LoadScore
    \/ StartPractice
    \/ PausePractice
    \/ StopPractice
    \/ Seek
    \/ SetLoop
    \/ SelectAudioOutput
    \/ SetBusVolume
    \/ Tick
    \/ AudioCallback

Spec == Init /\ [][Next]_vars


\* a step that runs the command, tick or callback named cmd: every action
\* of Spec stores its own name
StepOf(cmd) == steps' = steps + 1 /\ last_cmd' = cmd

\* C1: every change of session_state follows the lifecycle: Idle -> Ready
\* only on a successful score load, Ready or Paused -> Running only on
\* StartPractice, Running -> Paused only on PausePractice, Running or Paused
\* -> Ready only on StopPractice, and nothing else; Paused and Ready are
\* never reached without a loaded score.
C1_Lifecycle ==
    [][/\ session_state' # session_state =>
              \/ /\ session_state = "Idle" /\ session_state' = "Ready"
                 /\ StepOf("LoadScore") /\ last_result' = "Ok"
              \/ /\ session_state \in {"Ready", "Paused"} /\ session_state' = "Running"
                 /\ StepOf("StartPractice")
              \/ /\ session_state = "Running" /\ session_state' = "Paused"
                 /\ StepOf("PausePractice")
              \/ /\ session_state \in {"Running", "Paused"} /\ session_state' = "Ready"
                 /\ StepOf("StopPractice")
       /\ session_state' \in {"Paused", "Ready"} => score' # None
    ]_vars

\* C2: after every command and tick playback_enabled is true exactly when
\* the session is Running; so outside Running the Autopilot and MetronomeFx
\* buses have gain 0 whatever their stored volumes, and UserMonitor has its
\* stored volume.
C2_PlaybackIffRunning ==
    /\ params.playback_enabled <=> session_state = "Running"
    /\ session_state # "Running" =>
           /\ bus(params, "Autopilot") = 0
           /\ bus(params, "MetronomeFx") = 0
           /\ bus(params, "UserMonitor") = settings.bus_user_volume

\* C2 witness: a running session has been paused with the Autopilot,
\* MetronomeFx and UserMonitor volumes all above 0.
C2_Witness ==
    /\ session_state = "Paused"
    /\ last_cmd = "PausePractice"
    /\ score # None
    /\ audio_stream
    /\ settings.bus_autopilot_volume > 0 /\ params.bus_autopilot > 0
    /\ params.bus_metronome > 0
    /\ bus(params, "UserMonitor") > 0
    /\ bus(params, "Autopilot") = 0

\* C3: StartPractice with no score loaded returns InvalidState and leaves
\* the session state, the transport (state and position), the scheduler
\* (cursor), playback_enabled and the contents of the audio queue as they were.
C3_StartWithoutScore ==
    [][(StepOf("StartPractice") /\ score = None) =>
           /\ last_result' = "InvalidState"
           /\ UNCHANGED <<session_state, transport, scheduler, audio_queue>>
           /\ params'.playback_enabled = params.playback_enabled
    ]_vars

\* C3 witness: StartPractice has been refused for want of a score with the
\* transport seeked away from 0 and flush events waiting in the audio queue.
C3_Witness ==
    /\ last_cmd = "StartPractice"
    /\ last_result = "InvalidState"
    /\ score = None
    /\ transport.position_tick # 0
    /\ audio_queue # <<>>

\* C4: whenever the session is Running a score is loaded and an audio
\* output is open: the stream and the queue producer both exist.
C4_RunningHasScoreAndOutput ==
    session_state = "Running" => (score # None /\ audio_stream /\ audio_queue_tx)

\* C7: the audio clock is written only by the audio callback, after a block
\* it is the block's start plus its frames, and its value never decreases.
C7_ClockMonotonic ==
    [][/\ audio_clock' # audio_clock => StepOf("AudioCallback")
       /\ StepOf("AudioCallback") => audio_clock' = gblock'.start + gblock'.frames
       /\ audio_clock' >= audio_clock
    ]_vars


----------------------------------------------------------------------------
(* The order of the judge's events                                         *)

\* the id of the target at 0-based index i of a list, NoTarget past its end
TargetIdAt(targets, i) == IF i < Len(targets) THEN targets[i + 1].id ELSE NoTarget

\* the counters a Stats event carries
CountersOf(ev) ==
    [combo |-> ev.combo, score |-> ev.score, hit |-> ev.hit, miss |-> ev.miss,
     wrong |-> ev.wrong]

\* the counters st as a Hit or Miss event ev updates them
CountersAfter(st, ev) ==
    IF ev.type = "Hit"
    THEN [combo |-> st.combo + 1,
          score |-> st.score + (IF ev.grade = "Perfect" THEN 100 ELSE 70),
          hit |-> st.hit + 1, miss |-> st.miss, wrong |-> st.wrong + ev.wrong_notes]
    ELSE [combo |-> 0, score |-> st.score, hit |-> st.hit, miss |-> st.miss + 1,
          wrong |-> st.wrong + ev.wrong_notes]

\* C11: in the events a judge call returns, every Hit and every Miss is
\* immediately followed by a Stats event carrying the counters as that Hit or
\* Miss updated them and then by a FocusChanged naming the next target (none
\* past the end of the list); load_targets returns exactly one FocusChanged,
\* naming the first target (none for an empty list).
C11_EventOrder ==
    [][JudgeStep =>
        LET ev == jevents'
        IN IF jcall'.op = "load_targets"
           THEN ev = <<[type |-> "FocusChanged", target_id |-> TargetIdAt(judge'.targets, 0)]>>
           ELSE \A i \in 1..Len(ev) :
                  ev[i].type \in {"Hit", "Miss"} =>
                    \* the events come in threes, so this is resolution number k
                    LET k == (i + 2) \div 3
                        before == IF i > 2 /\ ev[i - 2].type = "Stats"
                                  THEN CountersOf(ev[i - 2])
                                  ELSE judge.stats
                    IN /\ i + 2 <= Len(ev)
                       /\ i = 3 * k - 2
                       /\ ev[i].target_id = TargetIdAt(judge.targets, judge.idx + k - 1)
                       /\ ev[i + 1].type = "Stats"
                       /\ CountersOf(ev[i + 1]) = CountersAfter(before, ev[i])
                       /\ ev[i + 2].type = "FocusChanged"
                       /\ ev[i + 2].target_id = TargetIdAt(judge.targets, judge.idx + k)
                       /\ (i + 2 = Len(ev) => judge'.stats = CountersOf(ev[i + 1]))
    ]_vars

\* C11 witness: one on_note_on returned a Miss and then a Hit, each with its
\* Stats and FocusChanged, the last FocusChanged naming no target.
C11_Witness ==
    /\ jcall.op = "on_note_on"
    /\ Len(jevents) = 6
    /\ jevents[1].type = "Miss"
    /\ jevents[4].type = "Hit"
    /\ jevents[6].type = "FocusChanged"
    /\ jevents[6].target_id = NoTarget


----------------------------------------------------------------------------
(* SpecSched: a Scheduler and its Transport driven call by call            *)

SchedMaxSample == 1440   \* the transport is advanced up to this sample time

\* playback events of the scores given to set_score: one note per hand, and
\* an unsorted list with untagged events
SchedScores ==
    {ImportedScore.playback_events,
     <<PlaybackMidiEvent(15, NoteOn(1, 80), "None"),
       PlaybackMidiEvent(0, NoteOn(0, 80), "Left"),
       PlaybackMidiEvent(5, NoteOff(0), "Right"),
       PlaybackMidiEvent(30, NoteOff(1), "None")>>}
SchedTempoMaps == {<<>>, <<[tick |-> 10, us_per_quarter |-> 250000]>>}
SchedMultipliers == {<<1, 1>>, <<1, 2>>}
SchedLookaheads == {5, 10}
SchedFrames == {240, 480}
SchedSyncTimes == {0, 720, 1440}
SchedSeekTicks == {0, 10}
SchedLoopRanges == {None,
                    Some([start_tick |-> 0, end_tick |-> 10]),
                    Some([start_tick |-> 5, end_tick |-> 20])}
PlaybackModes == {"Demo", "Accompaniment"}

\* Scheduler::new and set_score, Transport::new, set_tempo_multiplier and play
SchedInit ==
    /\ JudgeIdle
    /\ GraphIdle
    /\ session_state = "Idle"
    /\ score = None
    /\ audio_stream = FALSE
    /\ audio_queue_tx = FALSE
    /\ settings = SettingsDefault
    /\ \E points \in SchedTempoMaps, m \in SchedMultipliers :
           transport = transport_play(set_tempo_multiplier(
                           TransportNew(480, 48000, points), m))
    /\ \E events \in SchedScores, ms \in SchedLookaheads :
           scheduler = set_score(SchedulerNew(48000, ms), events)
    /\ last_cmd = "new"
    /\ last_result = "Ok"
    /\ steps = 0
    /\ SchedIdle
    /\ ProbeIdle
    /\ InputIdle

SchedFrame == UNCHANGED <<judgeVars, graphVars, session_state, score, audio_stream,
                          audio_queue_tx, settings, last_cmd, last_result, steps, probe,
                          inputVars, auxVars>>

\* scheduler.schedule(&mut transport)
SchedSchedule ==
    LET r == schedule(scheduler, transport)
        \* the pass ended at the loop's end and went back to its start
        looped == /\ scheduler.loop_range # None
                  /\ \E i \in (scheduler.cursor + 1)..Len(scheduler.events) :
                         /\ scheduler.events[i].tick >= scheduler.loop_range[1].end_tick
                         /\ scheduler.events[i].tick <= window_end(scheduler, transport)
    IN /\ scheduler' = r.s
       /\ transport' = r.t
       /\ emitted' = r.emitted
       /\ emitted_since' = IF looped THEN <<>> ELSE emitted_since \o r.emitted
       /\ cursor_since' = IF looped THEN r.s.cursor ELSE cursor_since
       /\ SchedFrame

\* transport.advance_by_samples(frames)
SchedAdvance ==
    \E frames \in SchedFrames :
        /\ transport.position_sample + frames <= SchedMaxSample
        /\ transport' = advance_by_samples(transport, frames)
        /\ UNCHANGED <<scheduler, emitted, emitted_since, cursor_since>>
        /\ SchedFrame

\* transport.sync_to_sample_time(sample_time)
SchedSync ==
    \E sample_time \in SchedSyncTimes :
        /\ transport' = sync_to_sample_time(transport, sample_time)
        /\ UNCHANGED <<scheduler, emitted, emitted_since, cursor_since>>
        /\ SchedFrame

\* transport.seek(tick); scheduler.seek(tick)
SchedSeek ==
    \E tick \in SchedSeekTicks :
        /\ transport' = transport_seek(transport, tick)
        /\ scheduler' = scheduler_seek(scheduler, tick)
        /\ emitted_since' = <<>>
        /\ cursor_since' = scheduler'.cursor
        /\ UNCHANGED emitted
        /\ SchedFrame

\* scheduler.set_loop(range); transport.set_loop(range)
SchedSetLoop ==
    \E range \in SchedLoopRanges :
        /\ scheduler' = scheduler_set_loop(scheduler, range)
        /\ transport' = transport_set_loop(transport, range)
        /\ emitted_since' = <<>>
        /\ cursor_since' = scheduler.cursor
        /\ UNCHANGED emitted
        /\ SchedFrame

\* scheduler.set_mode(mode)
SchedSetMode ==
    \E mode \in PlaybackModes :
        /\ scheduler' = set_mode(scheduler, mode)
        /\ emitted_since' = <<>>
        /\ cursor_since' = scheduler.cursor
        /\ UNCHANGED <<transport, emitted>>
        /\ SchedFrame

\* scheduler.set_accompaniment_route(play_left, play_right)
SchedSetRoute ==
    \E play_left \in BOOLEAN, play_right \in BOOLEAN :
        /\ scheduler' = set_accompaniment_route(scheduler, play_left, play_right)
        /\ emitted_since' = <<>>
        /\ cursor_since' = scheduler.cursor
        /\ UNCHANGED <<transport, emitted>>
        /\ SchedFrame

SchedNext ==
    \/ SchedSchedule
    \/ SchedAdvance
    \/ SchedSync
    \/ SchedSeek
    \/ SchedSetLoop
    \/ SchedSetMode
    \/ SchedSetRoute

SpecSched == SchedInit /\ [][SchedNext]_vars


----------------------------------------------------------------------------
(* The scheduler without a loop                                            *)

\* the events lo..hi of the score that routing accepts, as schedule() would
\* stamp them on transport t
RECURSIVE RoutedSlice(_, _, _, _)
RoutedSlice(s, t, lo, hi) ==
    IF hi < lo
    THEN <<>>
    ELSE LET e == s.events[hi]
             b == route_bus(s, e.hand)
             before == RoutedSlice(s, t, lo, hi - 1)
         IN IF b = None
            THEN before
            ELSE Append(before, ScheduledEvent(tick_to_sample(t, e.tick), b[1], e.event))

\* the events of the score whose tick lies within the lookahead window
DueCount(s, t) == Cardinality({i \in 1..Len(s.events) : s.events[i].tick <= window_end(s, t)})

\* C12: with no loop range, what schedule() has returned over its successive
\* calls since the score position and the routing were last set is exactly the
\* accepted events between the cursor of then and the cursor of now, each once,
\* in score order, stamped transport.tick_to_sample(event.tick); and a call
\* leaves the cursor behind the last event of its lookahead window, neither
\* before it (an event skipped for now) nor beyond it.
C12_EmittedOnceInOrder ==
    /\ [](scheduler.loop_range = None =>
            /\ cursor_since <= scheduler.cursor
            /\ emitted_since = RoutedSlice(scheduler, transport,
                                           cursor_since + 1, scheduler.cursor))
    /\ [][(SchedSchedule /\ scheduler.loop_range = None) =>
            /\ scheduler'.cursor = Max(scheduler.cursor, DueCount(scheduler, transport))
            /\ emitted' = RoutedSlice(scheduler, transport,
                                      scheduler.cursor + 1, scheduler'.cursor)]_vars

\* the score has been played to its end over more than one call, with an event
\* dropped by routing
C12_Witness ==
    /\ scheduler.loop_range = None
    /\ cursor_since = 0
    /\ scheduler.cursor = Len(scheduler.events)
    /\ emitted # <<>>
    /\ emitted # emitted_since
    /\ Len(emitted_since) < Len(scheduler.events)
    /\ Len(emitted_since) >= 2


----------------------------------------------------------------------------
(* The scheduler at the end of a loop                                      *)

\* the index of the last event a pass walks with loop range l set: the events
\* up to it lie within the lookahead window and before the loop's end
LoopStop(s, t, l) ==
    Max(s.cursor,
        Cardinality({i \in 1..Len(s.events) :
                        /\ s.events[i].tick <= window_end(s, t)
                        /\ s.events[i].tick < l.end_tick}))

\* the pass reaches an event at or beyond the loop's end
AtLoopEdge(s, t, l) ==
    LET k == LoopStop(s, t, l)
    IN k < Len(s.events) /\ s.events[k + 1].tick <= window_end(s, t)

----------------------------------------------------------------------------
(* Routing by playback mode and hand                                       *)

Hands == {"Left", "Right", "None"}

\* the events routing drops, as the playback settings describe them
Dropped(s, hand) ==
    /\ s.mode = "Accompaniment"
    /\ \/ hand = "Left" /\ ~s.play_left
       \/ hand = "Right" /\ ~s.play_right

\* the events lo..hi of the score that are not dropped, on the Autopilot bus
RECURSIVE KeptSlice(_, _, _, _)
KeptSlice(s, t, lo, hi) ==
    IF hi < lo
    THEN <<>>
    ELSE LET e == s.events[hi]
             before == KeptSlice(s, t, lo, hi - 1)
         IN IF Dropped(s, e.hand)
            THEN before
            ELSE Append(before, ScheduledEvent(tick_to_sample(t, e.tick), "Autopilot", e.event))

\* the index of the last event a call of schedule() walks
LastWalked(s, t) ==
    IF s.loop_range = None
    THEN Max(s.cursor, DueCount(s, t))
    ELSE LoopStop(s, t, s.loop_range[1])

----------------------------------------------------------------------------
(* Looped playback under the control tick                                  *)

InLoop(l, tick) == l.start_tick <= tick /\ tick < l.end_tick

\* the score NoteOns among the queued events
ScoreNoteOns(queue) ==
    {i \in 1..Len(queue) : queue[i].bus = "Autopilot" /\ queue[i].event.kind = "NoteOn"}

\* C14: while the session is Running with loop range [a, b) and the transport
\* inside it, a control tick keeps the transport inside [a, b): the position it
\* syncs to the audio clock and hands to the judge, and the position it leaves;
\* and a NoteOn it schedules for another pass through the loop is stamped
\* later than the same NoteOn of the pass before.
C14_LoopPlayback ==
    [][(/\ StepOf("Tick")
        /\ session_state = "Running"
        /\ scheduler.loop_range # None
        /\ InLoop(scheduler.loop_range[1], transport.position_tick)) =>
          LET l == scheduler.loop_range[1]
          IN /\ InLoop(l, jcall'.tick)
             /\ InLoop(l, transport'.position_tick)
             /\ \A i \in ScoreNoteOns(audio_queue'), j \in ScoreNoteOns(audio_queue') :
                    (i < j /\ audio_queue'[i].event.note = audio_queue'[j].event.note)
                        => audio_queue'[i].sample_time < audio_queue'[j].sample_time]_vars


----------------------------------------------------------------------------
(* SpecTransport: a Transport driven call by call                          *)

TrMaxSteps == 3    \* calls on the transport per behaviour
ProbeMaxTick == 12 \* ticks 0..ProbeMaxTick are converted to samples and back

TempoPoint(tick, us_per_quarter) == [tick |-> tick, us_per_quarter |-> us_per_quarter]

\* tempo point lists given to Transport::new and update_tempo_map: empty, a
\* single point at tick 0, no point at tick 0, unsorted with a point at tick 0,
\* and a repeated tick
TempoInputs ==
    {<<>>,
     <<TempoPoint(0, 250000)>>,
     <<TempoPoint(10, 250000)>>,
     <<TempoPoint(10, 250000), TempoPoint(0, 400000)>>,
     <<TempoPoint(0, 250000), TempoPoint(10, 400000), TempoPoint(10, 250000)>>}
TrPpqs == {480, 9600}
TrSampleRates == {48000, 8000}
TrMultipliers == {<<1, 1>>, <<1, 2>>, <<2, 1>>, <<1, 20>>}
TrSeekTicks == {0, 7, 480}
TrSampleTimes == {0, 100, 24000}
ProbeTicks == 0..ProbeMaxTick

\* Transport::new
TrInit ==
    /\ JudgeIdle
    /\ GraphIdle
    /\ SchedIdle
    /\ session_state = "Idle"
    /\ score = None
    /\ audio_stream = FALSE
    /\ audio_queue_tx = FALSE
    /\ settings = SettingsDefault
    /\ scheduler = SchedulerNew(48000, 30)
    /\ last_cmd = "new"
    /\ last_result = "Ok"
    /\ steps = 0
    /\ \E ppq \in TrPpqs, sample_rate_hz \in TrSampleRates, points \in TempoInputs :
           /\ transport = TransportNew(ppq, sample_rate_hz, points)
           /\ probe = [op |-> "new", points |-> points]
    /\ InputIdle

\* one call on the transport: its new value and the record of the call
TrDo(t, call) ==
    /\ steps < TrMaxSteps
    /\ steps' = steps + 1
    /\ transport' = t
    /\ probe' = call
    /\ UNCHANGED <<judgeVars, graphVars, inputVars, auxVars, emitted, emitted_since,
                   cursor_since, session_state, score, audio_stream, audio_queue_tx,
                   settings, scheduler, last_cmd, last_result>>

\* transport.seek(tick)
TrSeek ==
    \E tick \in TrSeekTicks :
        TrDo(transport_seek(transport, tick), [op |-> "seek", tick |-> tick])

\* transport.align_to_sample_time(sample_time)
TrAlign ==
    \E sample_time \in TrSampleTimes :
        TrDo(align_to_sample_time(transport, sample_time),
             [op |-> "align_to_sample_time", sample_time |-> sample_time])

\* transport.sync_to_sample_time(sample_time)
TrSync ==
    \E sample_time \in TrSampleTimes :
        TrDo(sync_to_sample_time(transport, sample_time),
             [op |-> "sync_to_sample_time", sample_time |-> sample_time])

\* transport.set_tempo_multiplier(multiplier)
TrSetTempoMultiplier ==
    \E multiplier \in TrMultipliers :
        TrDo(set_tempo_multiplier(transport, multiplier),
             [op |-> "set_tempo_multiplier", multiplier |-> multiplier])

\* transport.set_sample_rate(sample_rate_hz)
TrSetSampleRate ==
    \E sample_rate_hz \in TrSampleRates :
        TrDo(set_sample_rate(transport, sample_rate_hz),
             [op |-> "set_sample_rate", sample_rate_hz |-> sample_rate_hz])

\* transport.update_tempo_map(points)
TrUpdateTempoMap ==
    \E points \in TempoInputs :
        TrDo(update_tempo_map(transport, points),
             [op |-> "update_tempo_map", points |-> points])

\* transport.sample_to_tick(transport.tick_to_sample(tick))
TrConvert ==
    \E tick \in ProbeTicks :
        LET sample == tick_to_sample(transport, tick)
        IN TrDo(transport, [op |-> "convert", tick |-> tick, sample |-> sample,
                            back |-> sample_to_tick(transport, sample)])

TrNext ==
    \/ TrSeek
    \/ TrAlign
    \/ TrSync
    \/ TrSetTempoMultiplier
    \/ TrSetSampleRate
    \/ TrUpdateTempoMap
    \/ TrConvert

SpecTransport == TrInit /\ [][TrNext]_vars


----------------------------------------------------------------------------
(* Tick -> sample -> tick                                                  *)

\* tempo multiplier 1 and a tempo map of one segment
ConstantTempo(t) == t.tempo_multiplier = <<1, 1>> /\ Len(t.tempo_map.segments) = 1

\* one tick lasts at least half a sample period plus 2 microseconds:
\* us_per_quarter / ppq >= 500000 / sample_rate_hz + 2, in units of 100 Hz
TickSpansSample(t) ==
    t.tempo_map.segments[1].us_per_quarter * (t.sample_rate_hz \div 100)
        >= t.ppq * (5000 + 2 * (t.sample_rate_hz \div 100))

\* C16 as stated: with tempo multiplier 1 and a constant tempo,
\* sample_to_tick(tick_to_sample(t)) is within one tick of t, whatever the
\* ppq and the sample rate.
C16_RoundTrip ==
    (probe.op = "convert" /\ ConstantTempo(transport))
        => Abs(probe.back - probe.tick) <= 1

\* C16 amended: with tempo multiplier 1 and a constant tempo whose tick lasts
\* at least half a sample period plus 2 microseconds,
\* sample_to_tick(tick_to_sample(t)) is within one tick of t.
C16_RoundTripLongTicks ==
    (probe.op = "convert" /\ ConstantTempo(transport) /\ TickSpansSample(transport))
        => Abs(probe.back - probe.tick) <= 1

\* a tick converted and back one tick off, on a transport whose ticks are
\* long enough and whose origin is not 0
C16_Witness ==
    /\ probe.op = "convert"
    /\ ConstantTempo(transport)
    /\ TickSpansSample(transport)
    /\ transport.origin_sample > 0
    /\ probe.sample > transport.origin_sample
    /\ Abs(probe.back - probe.tick) = 1


----------------------------------------------------------------------------
(* Binding the transport to the audio clock                                *)

\* the step is the call op on the transport
TrStep(op) == steps' = steps + 1 /\ probe'.op = op

\* C17: align_to_sample_time(now) leaves position_tick unchanged, sets
\* position_sample to now and sets the origin so that
\* tick_to_sample(position_tick) = now, whatever the position, the tempo
\* multiplier and now.
C17_AlignBindsPosition ==
    [][TrStep("align_to_sample_time") =>
          /\ transport'.position_tick = transport.position_tick
          /\ transport'.position_sample = probe'.sample_time
          /\ tick_to_sample(transport', transport'.position_tick) = probe'.sample_time]_vars


----------------------------------------------------------------------------
(* Changing the tempo multiplier and the sample rate                       *)

\* C18: set_tempo_multiplier and set_sample_rate leave position_tick and
\* position_sample unchanged and recompute the origin so that, under the new
\* parameters, tick_to_sample(position_tick) = position_sample, whatever the
\* state before; the multiplier stored is max(requested, 0.1).
C18_RateChangeKeepsPosition ==
    [][(TrStep("set_tempo_multiplier") \/ TrStep("set_sample_rate")) =>
          /\ transport'.position_tick = transport.position_tick
          /\ transport'.position_sample = transport.position_sample
          /\ tick_to_sample(transport', transport'.position_tick)
                 = transport'.position_sample
          /\ TrStep("set_tempo_multiplier") =>
                 transport'.tempo_multiplier =
                     multiplier_max(probe'.multiplier, MinMultiplier)
          /\ TrStep("set_sample_rate") =>
                 transport'.sample_rate_hz = probe'.sample_rate_hz]_vars


----------------------------------------------------------------------------
(* The tempo map's points                                                  *)

\* the tempo points of a map, as its segments keep them
PointsOf(map) ==
    [i \in 1..Len(map.segments) |->
        TempoPoint(map.segments[i].start_tick, map.segments[i].us_per_quarter)]

\* number of times point p occurs in the list
Occurrences(points, p) == Cardinality({i \in 1..Len(points) : points[i] = p})

\* C19: whatever the list of tempo points given to TempoMap::new, the map
\* begins at tick 0, its points are sorted strictly by tick, and the synthetic
\* point of 500000 us/quarter at tick 0 is there only if the list had no
\* point at tick 0.
C19_TempoMapPoints ==
    probe.op \in {"new", "update_tempo_map"} =>
        LET pts == PointsOf(transport.tempo_map)
            synthetic == TempoPoint(0, DefaultUsPerQuarter)
        IN /\ pts[1].tick = 0
           /\ \A i \in 1..(Len(pts) - 1) : pts[i].tick < pts[i + 1].tick
           /\ (\E i \in 1..Len(probe.points) : probe.points[i].tick = 0)
                  => Occurrences(pts, synthetic) = Occurrences(probe.points, synthetic)


----------------------------------------------------------------------------
(* The flush of sounding notes                                             *)

FlushBuses == {"Autopilot", "UserMonitor"}
FlushSize == 2 * NumNotes + 2

\* events is a flush stamped now: for each bus one NoteOff per pitch and one
\* Cc64 = 0, and nothing else
IsFlush(events, now) ==
    /\ Len(events) = FlushSize
    /\ \A b \in FlushBuses :
          /\ \A n \in 0..(NumNotes - 1) :
                \E i \in 1..Len(events) : events[i] = ScheduledEvent(now, b, NoteOff(n))
          /\ \E i \in 1..Len(events) : events[i] = ScheduledEvent(now, b, Cc64(0))

\* the command of this step flushes: Pause, Stop and Seek always, Start when
\* it starts the session
FlushingStep ==
    \/ StepOf("PausePractice")
    \/ StepOf("StopPractice")
    \/ StepOf("Seek")
    \/ StepOf("StartPractice") /\ session_state # "Running" /\ last_result' = "Ok"

\* the queue the flush pushes into: the one open before the command, or the
\* empty one of the output that Start has opened
FlushBase ==
    IF StepOf("StartPractice") /\ ~audio_stream THEN <<>> ELSE audio_queue

----------------------------------------------------------------------------
(* SpecInput: AppCore with a MIDI input.  The port calls the input         *)
(* callback between commands and control ticks; twin is a second AppCore   *)
(* taken through the same commands, callbacks and ticks, except that its   *)
(* input offset is never set.                                              *)

InputMaxSteps == 5
InputOffsets == {20, -20}
\* what the port delivers: the event and the milliseconds since the last one
MidiInputs == {<<0, NoteOn(60, 80)>>, <<10, NoteOn(60, 80)>>, <<10, NoteOff(60)>>}

\* AppCore::new
AppNew ==
    [session_state |-> "Idle", score |-> None, audio_stream |-> FALSE,
     audio_queue_tx |-> FALSE, settings |-> SettingsDefault,
     transport |-> TransportNew(480, 48000, <<>>),
     scheduler |-> SchedulerNew(48000, 30),
     judge |-> JudgeNew(default_judge_config), jevents |-> <<>>,
     jcall |-> [op |-> "new", tick |-> 0, note |-> 0],
     params |-> AudioParamsNew(SettingsDefault), audio_queue |-> <<>>,
     pending |-> None, audio_clock |-> 0, stream_time |-> 0,
     midi_stream |-> FALSE, midi_queue_rx |-> FALSE, midi_queue |-> <<>>,
     recent_inputs |-> <<>>, wall |-> 0, judged |-> <<>>]

\* the application after LoadScore of the demo score and SelectMidiInput
InputStart == open_midi_input(load_score(AppNew, "InternalDemo").a, TRUE).a

\* ... and after SetInputOffsetMs
InputStarts == {InputStart} \cup {set_input_offset_ms(InputStart, ms) : ms \in InputOffsets}

InputInit ==
    \E x \in InputStarts :
        /\ session_state = x.session_state
        /\ score = x.score
        /\ audio_stream = x.audio_stream
        /\ audio_queue_tx = x.audio_queue_tx
        /\ settings = x.settings
        /\ transport = x.transport
        /\ scheduler = x.scheduler
        /\ judge = x.judge
        /\ jevents = x.jevents
        /\ jcall = x.jcall
        /\ jcalls = 0
        /\ params = x.params
        /\ audio_queue = x.audio_queue
        /\ pending = x.pending
        /\ audio_clock = x.audio_clock
        /\ stream_time = x.stream_time
        /\ synth_calls = <<>>
        /\ gblock = [start |-> 0, frames |-> 0, segments |-> <<>>]
        /\ gpushes = 0
        /\ midi_stream = x.midi_stream
        /\ midi_queue_rx = x.midi_queue_rx
        /\ midi_queue = x.midi_queue
        /\ recent_inputs = x.recent_inputs
        /\ wall = x.wall
        /\ judged = x.judged
        /\ twin = InputStart
        /\ AuxIdle
        /\ last_cmd = "SelectMidiInput"
        /\ last_result = "Ok"
        /\ steps = 0
        /\ SchedIdle
        /\ ProbeIdle

\* the same handler on both applications
Both(a, b, cmd, result) ==
    /\ steps < InputMaxSteps
    /\ \E x \in {a}, y \in {b} : CommitRun(x, cmd, result) /\ twin' = y

InStartPractice ==
    LET r == start_practice(App, "Ok")
    IN Both(r.a, start_practice(twin, "Ok").a, "StartPractice", r.result)

InPausePractice == Both(pause_practice(App), pause_practice(twin), "PausePractice", "Ok")

InSetInputOffsetMs ==
    \E ms \in InputOffsets :
        Both(set_input_offset_ms(App, ms), twin, "SetInputOffsetMs", "Ok")

InSetMonitorEnabled ==
    \E enabled \in {FALSE} :
        Both(set_monitor_enabled(App, enabled), set_monitor_enabled(twin, enabled),
             "SetMonitorEnabled", "Ok")

\* the port calls the input callback of the open stream
MidiCallback ==
    /\ midi_stream
    /\ \E in \in MidiInputs, contended \in BOOLEAN :
           Both(midi_callback(App, wall + in[1], in[2], contended),
                midi_callback(twin, wall + in[1], in[2], contended),
                "MidiCallback", IF contended THEN "Contended" ELSE "Ok")

InTick == Both(AppCore_tick(App), AppCore_tick(twin), "Tick", "Ok")

InAudioCallback ==
    /\ audio_stream
    /\ Both(audio_callback(App), audio_callback(twin), "AudioCallback", "Ok")

InputNext ==
    \/ InStartPractice
    \/ InPausePractice
    \/ InSetInputOffsetMs
    \/ InSetMonitorEnabled
    \/ MidiCallback
    \/ InTick
    \/ InAudioCallback

SpecInput == InputInit /\ [][InputNext]_vars


----------------------------------------------------------------------------
(* C21: the input offset corrects judging only                             *)

\* the notes and velocities the last tick judged are those the twin judged
SameNotesJudged ==
    /\ Len(judged) = Len(twin.judged)
    /\ \A i \in 1..Len(judged) :
           /\ judged[i].note = twin.judged[i].note
           /\ judged[i].velocity = twin.judged[i].velocity

\* C21: of two runs with the same commands, clock values and MIDI input
\* that differ only in input_offset_ms (here: the run and its twin, whose
\* offset is 0), the control-to-audio queue holds the same ScheduledEvents,
\* with the same sample times, in every state, and so does the audio
\* thread's pending event; the runs hear and judge the same notes, and after
\* a control tick the tick of every note given to the judge is the twin's
\* plus ms_to_ticks(input_offset_ms).
C21_OffsetJudgingOnly ==
    /\ [](/\ audio_queue = twin.audio_queue
          /\ pending = twin.pending
          /\ audio_clock = twin.audio_clock
          /\ transport = twin.transport
          /\ recent_inputs = twin.recent_inputs
          /\ SameNotesJudged)
    /\ [][StepOf("Tick") =>
            \A i \in 1..Len(judged') :
                judged'[i].tick = twin'.judged[i].tick
                                  + ms_to_ticks(transport', settings.input_offset_ms)]_vars

\* a tick has judged a note under a non-zero offset, at another tick than
\* the twin did, and both pushed its monitor event
C21_Witness ==
    /\ last_cmd = "Tick"
    /\ settings.input_offset_ms # 0
    /\ judged # <<>>
    /\ judged[1].tick # twin.judged[1].tick
    /\ \E i \in 1..Len(audio_queue) : audio_queue[i].bus = "UserMonitor"


----------------------------------------------------------------------------
(* C22: every control tick drains the MIDI input queue                     *)

\* the events of the PlayerEvents in queue, in order
QueuedEvents(queue) == [i \in 1..Len(queue) |-> queue[i].event]

\* the last n elements of s
LastN(s, n) == SubSeq(s, Max(1, Len(s) - n + 1), Len(s))

IsNoteOn(e) == e.kind = "NoteOn"

\* the tick removed every PlayerEvent that was queued when it started,
\* recorded them in the recent-input list and gave the NoteOns to the judge
\* in queue order
Drained ==
    /\ midi_queue' = <<>>
    /\ recent_inputs' = LastN(recent_inputs \o QueuedEvents(midi_queue), RecentInputsCap)
    /\ LET ons == SelectSeq(QueuedEvents(midi_queue), IsNoteOn)
       IN /\ Len(judged') = Len(ons)
          /\ \A i \in 1..Len(ons) :
                 /\ judged'[i].note = ons[i].note
                 /\ judged'[i].velocity = ons[i].velocity

\* C22: after tick() every PlayerEvent that was in the MIDI input queue at
\* the start of the tick has been removed from the queue, recorded in the
\* recent-input list and, if a NoteOn, given to the judge in FIFO order, in
\* every application state, also with no audio output open.
C22_TickDrainsInput == [][StepOf("Tick") => Drained]_vars


----------------------------------------------------------------------------
(* C23: pushes to a full queue and contended input callbacks drop events   *)

IsPrefix(s, t) == Len(s) <= Len(t) /\ SubSeq(t, 1, Len(s)) = s

\* a step of a handler that pushes to the control-to-audio queue without
\* replacing it: the flush of Pause and of Start, the batch and the monitor
\* events of a tick
PushingStep ==
    \/ StepOf("PausePractice")
    \/ StepOf("Tick")
    \/ StepOf("StartPractice") /\ audio_stream

\* an input callback that found the producer locked or the ring buffer full
DroppingCallback ==
    /\ StepOf("MidiCallback")
    /\ last_result' = "Contended" \/ Len(midi_queue) >= MidiQueueCap

\* C23: a handler that pushes ScheduledEvents (batch, monitor, flush) to the
\* control-to-audio queue returns no error whatever room the queue has; the
\* queue never exceeds its capacity and what it held stays, in order, at its
\* front, so that the events that found it full are dropped.  An input
\* callback that fails to lock the producer, or finds the MIDI queue full,
\* returns with the queue and the application as they were.
C23_FullQueueDrops ==
    [][/\ PushingStep =>
            /\ last_result' = "Ok"
            /\ Len(audio_queue') <= QueueCap
            /\ IsPrefix(audio_queue, audio_queue')
       /\ DroppingCallback =>
            /\ midi_queue' = midi_queue
            /\ UNCHANGED <<judgeVars, audio_queue, pending, recent_inputs, judged,
                           session_state, transport, scheduler, settings>>]_vars

\* a tick has routed an input event while the control-to-audio queue was
\* full: the event is recorded, its monitor event is not in the queue
C23_Witness ==
    /\ last_cmd = "Tick"
    /\ Len(audio_queue) = QueueCap
    /\ settings.monitor_enabled
    /\ recent_inputs # <<>>
    /\ \A i \in 1..Len(audio_queue) :
           audio_queue[i].event # recent_inputs[Len(recent_inputs)]


----------------------------------------------------------------------------
(* C24: a failed LoadScore leaves the score state alone                    *)

\* C24: a LoadScore command whose importer fails returns an error and
\* leaves the loaded score, the judge (targets, focus, statistics), the
\* scheduler (score and cursor), the transport and session_state as they
\* were before the command.
C24_FailedLoadKeepsScore ==
    [][StepOf("LoadScore") /\ last_result' # "Ok" =>
            /\ last_result' = "ScoreLoad"
            /\ UNCHANGED <<score, judge, scheduler, transport, session_state>>]_vars

\* a load has failed while a score was being played past its start
C24_Witness ==
    /\ last_cmd = "LoadScore"
    /\ last_result = "ScoreLoad"
    /\ score # None
    /\ session_state = "Running"
    /\ transport.position_tick > 0


----------------------------------------------------------------------------
(* SpecRoute: the commands that set the loop, the playback mode and the    *)
(* hand routing, and the commands that open the audio output, on an        *)
(* application with the demo score loaded                                  *)

RouteMaxSteps == 4
HandRoutes == {<<TRUE, FALSE>>, <<FALSE, TRUE>>}

\* Command::SetPlaybackMode
set_playback_mode(a, mode) == [a EXCEPT !.scheduler = set_mode(@, mode)]

\* Command::SetAccompanimentRoute
set_route(a, play_left, play_right) ==
    [a EXCEPT !.scheduler = set_accompaniment_route(@, play_left, play_right)]

\* the application after LoadScore of the demo score
RouteStart == load_score(AppNew, "InternalDemo").a

RouteInit ==
    /\ session_state = RouteStart.session_state
    /\ score = RouteStart.score
    /\ audio_stream = RouteStart.audio_stream
    /\ audio_queue_tx = RouteStart.audio_queue_tx
    /\ settings = RouteStart.settings
    /\ transport = RouteStart.transport
    /\ scheduler = RouteStart.scheduler
    /\ judge = RouteStart.judge
    /\ jevents = RouteStart.jevents
    /\ jcall = RouteStart.jcall
    /\ jcalls = 0
    /\ params = RouteStart.params
    /\ last_cmd = "LoadScore"
    /\ last_result = "Ok"
    /\ steps = 0
    /\ GraphIdle
    /\ SchedIdle
    /\ ProbeIdle
    /\ InputIdle

RouteDo(a, cmd, result) == steps < RouteMaxSteps /\ Commit(a, cmd, result)

RtSetLoop == \E range \in LoopRanges : RouteDo(set_loop(App, range), "SetLoop", "Ok")

RtSetPlaybackMode ==
    \E mode \in PlaybackModes :
        RouteDo(set_playback_mode(App, mode), "SetPlaybackMode", "Ok")

RtSetAccompanimentRoute ==
    \E r \in HandRoutes :
        RouteDo(set_route(App, r[1], r[2]), "SetAccompanimentRoute", "Ok")

RtSelectAudioOutput ==
    \E opens \in BOOLEAN :
        LET r == open_audio_output(App, opens)
        IN RouteDo(r.a, "SelectAudioOutput", r.result)

RtStartPractice ==
    LET r == start_practice(App, "Ok") IN RouteDo(r.a, "StartPractice", r.result)

RtStopPractice == RouteDo(stop_practice(App), "StopPractice", "Ok")

RtTick == RouteDo(AppCore_tick(App), "Tick", "Ok")

RouteNext ==
    \/ RtSetLoop
    \/ RtSetPlaybackMode
    \/ RtSetAccompanimentRoute
    \/ RtSelectAudioOutput
    \/ RtStartPractice
    \/ RtStopPractice
    \/ RtTick

SpecRoute == RouteInit /\ [][RouteNext]_vars

----------------------------------------------------------------------------
(* C28: loop, playback mode and hand routing stay as commanded             *)

\* C28: SetLoop gives the transport and the scheduler the same range, and
\* the range, the scheduler's playback mode and its hand routing change
\* only by their own command: after any sequence of commands they are the
\* ones last set, also after a later SelectAudioOutput or a StartPractice
\* that opens the audio output.
C28_RouteSettingsStay ==
    [][/\ StepOf("SetLoop") => scheduler'.loop_range = transport'.loop_range
       /\ ~StepOf("SetLoop") =>
              /\ scheduler'.loop_range = scheduler.loop_range
              /\ transport'.loop_range = transport.loop_range
       /\ ~StepOf("SetPlaybackMode") => scheduler'.mode = scheduler.mode
       /\ ~StepOf("SetAccompanimentRoute") =>
              /\ scheduler'.play_left = scheduler.play_left
              /\ scheduler'.play_right = scheduler.play_right]_vars


----------------------------------------------------------------------------
(* C29: Seek moves the position and playback goes on from there            *)

\* C29: after Seek{t} position_tick is t, position_sample is the sample of
\* t under the current origin and the scheduler's cursor is at the first
\* event with tick >= t; when the session is Running and the control tick
\* follows with no audio rendered in between (no ticks elapsed), the
\* position after the tick is still t and the scheduler has not gone back
\* before its cursor.
C29_SeekContinues ==
    [][/\ StepOf("Seek") =>
            /\ transport'.position_sample
                   = tick_to_sample(transport', transport'.position_tick)
            /\ transport'.origin_sample = transport.origin_sample
            /\ scheduler'.cursor
                   = first_at_or_after(scheduler.events, 1, transport'.position_tick)
       /\ (last_cmd = "Seek" /\ session_state = "Running" /\ StepOf("Tick")) =>
            /\ transport'.position_tick = transport.position_tick
            /\ transport.loop_range = None => scheduler'.cursor >= scheduler.cursor]_vars


----------------------------------------------------------------------------
(* C30: the look-ahead bound of a schedule() pass                          *)

----------------------------------------------------------------------------
(* SpecImport: MIDI files of a few note events, imported                   *)

ImportMaxLen == 3       \* note events in a file
ImportNotes == {60, 62}
ImportTicks == {0, 10}

\* what the track loop of import_midi_bytes pushes for the note messages of
\* a file, track after track
ImportEvents ==
    {PlaybackMidiEvent(t, e, "None") :
        t \in ImportTicks,
        e \in {NoteOn(n, 80) : n \in ImportNotes} \cup {NoteOff(n) : n \in ImportNotes}}

RECURSIVE SeqsUpTo(_, _)
SeqsUpTo(S, n) ==
    IF n = 0
    THEN {<<>>}
    ELSE LET shorter == SeqsUpTo(S, n - 1)
         IN shorter \cup {Append(q, x) : q \in {r \in shorter : Len(r) = n - 1}, x \in S}

ImportInit ==
    /\ smf_events \in [ppq : {0, 480}, events : SeqsUpTo(ImportEvents, ImportMaxLen)]
    /\ playback_events = None
    /\ JudgeIdle /\ GraphIdle /\ AppIdle /\ SchedIdle /\ ProbeIdle /\ WgIdle /\ InputClosed

\* import_midi_bytes
ImportMidiBytes ==
    /\ playback_events = None
    /\ playback_events' = Some(import_playback_events(smf_events.ppq, smf_events.events))
    /\ UNCHANGED <<judgeVars, graphVars, appVars, schedVars, inputVars, smf_events, wg, wg_call>>

ImportNext == ImportMidiBytes

SpecImport == ImportInit /\ [][ImportNext]_vars

\* the NoteOn and NoteOff events of one pitch, in the order of the list
NotesOf(events, note) ==
    SelectSeq(events, LAMBDA e : e.event.kind # "Cc64" /\ e.event.note = note)

\* NoteOn and NoteOff alternate, starting with NoteOn and ending with NoteOff
Alternates(q) ==
    /\ Len(q) % 2 = 0
    /\ \A i \in 1..Len(q) :
           q[i].event.kind = IF i % 2 = 1 THEN "NoteOn" ELSE "NoteOff"

\* C27: in the playback events of an imported file, for every pitch the
\* NoteOn and NoteOff events strictly alternate, starting with NoteOn and
\* ending with NoteOff.
C27_ImportedNotesAlternate ==
    playback_events # None =>
        \A n \in ImportNotes : Alternates(NotesOf(playback_events[1], n))

\* the same, for the files in which no pitch has two NoteOns at one tick
NoDoubledNoteOn ==
    \A i, k \in 1..Len(smf_events.events) :
        LET a == smf_events.events[i]
            b == smf_events.events[k]
        IN (i # k /\ a.event.kind = "NoteOn" /\ b.event.kind = "NoteOn"
            /\ a.event.note = b.event.note) => a.tick # b.tick

C27_AlternateUnlessDoubled ==
    (playback_events # None /\ NoDoubledNoteOn) =>
        \A n \in ImportNotes : Alternates(NotesOf(playback_events[1], n))


----------------------------------------------------------------------------
(* SpecWg: the waveguide synth called by the audio thread while the        *)
(* control thread sets the sample rate                                     *)

WgMaxCalls == 6         \* calls per behaviour
WgFrames == 2           \* length of the audio thread's buffers
WgSpecBuses == {"UserMonitor", "Autopilot"}
WgEvents == {NoteOn(60, 80), NoteOn(62, 80), NoteOff(60), NoteOff(62), Cc64(127), Cc64(0)}

WgInit ==
    /\ JudgeIdle /\ GraphIdle /\ AppIdle /\ SchedIdle /\ ProbeIdle /\ AuxIdle /\ InputClosed

WgDo(w, call) ==
    /\ steps < WgMaxCalls
    /\ steps' = steps + 1
    /\ wg' = w
    /\ wg_call' = call
    /\ UNCHANGED <<judgeVars, graphVars, schedVars, inputVars, smf_events, playback_events,
                   session_state, score, audio_stream, audio_queue_tx, settings,
                   transport, scheduler, last_cmd, last_result>>

\* set_sample_rate: `self.inner.lock()` returns the guard
WgLock ==
    /\ ~wg.locked
    /\ WgDo([wg EXCEPT !.locked = TRUE], [op |-> "lock"])

\* set_sample_rate: the body, and the guard dropped
WgSetSampleRate ==
    /\ wg.locked
    /\ \E rate \in {44100, 48000} :
           WgDo(wg_set_sample_rate(wg, rate), [op |-> "set_sample_rate"])

\* handle_event on the audio thread
WgHandleEvent ==
    \E b \in WgSpecBuses, event \in WgEvents :
        \E r \in {wg_handle_event(wg, b, event)} :
            WgDo(r.w, [op |-> "handle_event", bus |-> b, event |-> event,
                       applied |-> r.applied])

\* render on the audio thread, into buffers that hold stale samples
WgRender ==
    \E b \in WgSpecBuses, frames \in {0, WgFrames} :
        \E gains \in [1..MaxVoices -> GainLevels] :
            /\ \A i \in 1..MaxVoices :
                   (wg.locked \/ ~wg.buses[b].voices[i].active) => gains[i] = 0
            /\ \E r \in {wg_render(wg, b, frames, Samples(WgFrames, 2), gains)} :
                   WgDo(r.w, [op |-> "render", bus |-> b, frames |-> frames,
                              gains |-> gains, out |-> r.out, applied |-> r.applied])

WgNext == WgLock \/ WgSetSampleRate \/ WgHandleEvent \/ WgRender

SpecWg == WgInit /\ [][WgNext]_vars

\* C25: handle_event and render called while another thread holds the synth
\* mutex complete without the mutex being released: the event is skipped
\* and leaves nothing behind, and render leaves its buffers, all of their
\* frames samples, zero.
C25_ContendedCallsReturn ==
    [][(wg.locked /\ wg_call'.op \in {"handle_event", "render"}) =>
          /\ wg' = wg
          /\ ~wg_call'.applied
          /\ wg_call'.op = "render" =>
                 /\ Len(wg_call'.out) = WgFrames
                 /\ \A i \in 1..WgFrames : wg_call'.out[i] = 0]_vars

C25_Witness ==
    /\ wg.locked
    /\ wg_call.op = "render"
    /\ wg_call.frames = WgFrames
    /\ \E b \in WgSpecBuses : \E i \in 1..MaxVoices : wg.buses[b].voices[i].active

\* every sustained voice is active, not key_down, and its bus's damper is down
SustainedVoicesHeld ==
    \A b \in WgBuses : \A i \in 1..MaxVoices :
        wg.buses[b].voices[i].sustained =>
            /\ wg.buses[b].voices[i].active
            /\ ~wg.buses[b].voices[i].key_down
            /\ wg.buses[b].sustain_down

\* what one applied call did to the voices of its bus
VoiceLifeCycle ==
    (wg_call'.op \in {"handle_event", "render"} /\ wg_call'.applied) =>
        LET old == wg.buses[wg_call'.bus]
            new == wg'.buses[wg_call'.bus]
        IN \A i \in 1..MaxVoices :
               /\ ( /\ wg_call'.op = "handle_event"
                    /\ wg_call'.event.kind = "NoteOff"
                    /\ old.voices[i].active
                    /\ old.voices[i].key_down
                    /\ old.voices[i].note = wg_call'.event.note )
                  => /\ ~new.voices[i].key_down
                     /\ new.voices[i].sustained = old.sustain_down
               /\ ( /\ wg_call'.op = "handle_event"
                    /\ wg_call'.event.kind = "Cc64"
                    /\ wg_call'.event.value < 64 )
                  => ~new.voices[i].sustained
               /\ (old.voices[i].active /\ ~new.voices[i].active)
                  => /\ wg_call'.op = "render"
                     /\ ~old.voices[i].key_down
                     /\ ~old.voices[i].sustained
                     /\ wg_call'.gains[i] < ReclaimGain

\* C26: a NoteOff on a key-down voice clears key_down and marks the voice
\* sustained iff the bus damper is down; a CC64 below 64 clears sustained
\* on every voice of the bus; a voice is reclaimed only when it is not
\* key_down, not sustained and its gain is below the threshold; and every
\* sustained voice is active, not key_down, with the bus damper down.
C26_VoiceLifeCycle == []SustainedVoicesHeld /\ [][VoiceLifeCycle]_vars

C26_Witness ==
    /\ wg_call.op = "render"
    /\ wg_call.applied
    /\ \E i, k \in 1..MaxVoices :
           /\ wg.buses[wg_call.bus].voices[i].sustained
           /\ ~wg.buses[wg_call.bus].voices[k].active
           /\ wg.buses[wg_call.bus].voices[k].age > 0


----------------------------------------------------------------------------
(* The judge under ticks in any order                                      *)

\* the ticks recorded for the matched notes of a focus state
MatchedTicks(state) == {state.matched[n] : n \in DOMAIN state.matched}

SetMin(S) == CHOOSE x \in S : \A y \in S : x <= y
SetMax(S) == CHOOSE x \in S : \A y \in S : x >= y

\* first_match_tick is the earliest of the recorded matches
FirstMatchEarliest ==
    (judge.state # None /\ judge.state[1].first_match_tick # None) =>
        judge.state[1].first_match_tick[1] = SetMin(MatchedTicks(judge.state[1]))

\* the accepted notes of the target a Hit of this on_note_on call resolves:
\* those recorded before the call, unless the call first timed the focus
\* out, and the note of the call
AcceptedTicks(i) ==
    (IF \E k \in 1..i : jevents'[k].type = "Miss"
     THEN {}
     ELSE MatchedTicks(judge.state[1])) \cup {jcall'.tick}

HitWithinRoll ==
    (JudgeStep /\ jcall'.op = "on_note_on") =>
        \A i \in DOMAIN jevents' :
            jevents'[i].type = "Hit" =>
                LET target == CHOOSE t \in Range(judge.targets) :
                                  t.id = jevents'[i].target_id
                    ticks == AcceptedTicks(i)
                IN /\ SetMax(ticks) - SetMin(ticks) <= judge.cfg.chord_roll
                   /\ jevents'[i].delta_tick = SetMin(ticks) - target.tick

\* C31: for every Hit the accepted notes of the target lie within chord_roll
\* ticks of each other, first_match_tick is the earliest matched tick, and
\* the Hit's delta is that earliest tick minus target.tick, whatever the
\* order of the ticks passed to on_note_on.
C31_ChordRollBound == []FirstMatchEarliest /\ [][HitWithinRoll]_vars

\* a call of on_note_on whose tick is not before the ticks already matched
\* for the focus
TickInOrder ==
    (judge.state # None) => \A t \in MatchedTicks(judge.state[1]) : t <= jcall'.tick

\* the same for notes that arrive in tick order
C31_InOrderRollBound == [][TickInOrder => HitWithinRoll]_vars


----------------------------------------------------------------------------
(* SpecFocus: the judge inside the application, fed by MIDI input and by   *)
(* ticks while the coordinator is commanded about                          *)

FocusMaxSteps == 5

\* the variables hold the application x, with nothing observed yet
StartsAs(x) ==
    /\ session_state = x.session_state
    /\ score = x.score
    /\ audio_stream = x.audio_stream
    /\ audio_queue_tx = x.audio_queue_tx
    /\ settings = x.settings
    /\ transport = x.transport
    /\ scheduler = x.scheduler
    /\ judge = x.judge
    /\ jevents = x.jevents
    /\ jcall = x.jcall
    /\ jcalls = 0
    /\ params = x.params
    /\ audio_queue = x.audio_queue
    /\ pending = x.pending
    /\ audio_clock = x.audio_clock
    /\ stream_time = x.stream_time
    /\ synth_calls = <<>>
    /\ gblock = [start |-> 0, frames |-> 0, segments |-> <<>>]
    /\ gpushes = 0
    /\ midi_stream = x.midi_stream
    /\ midi_queue_rx = x.midi_queue_rx
    /\ midi_queue = x.midi_queue
    /\ recent_inputs = x.recent_inputs
    /\ wall = x.wall
    /\ judged = x.judged
    /\ twin = x
    /\ steps = 0
    /\ AuxIdle
    /\ SchedIdle
    /\ ProbeIdle

\* LoadScore of the two-note file, SelectMidiInput, StartPractice
FocusStart ==
    start_practice(open_midi_input(load_score(AppNew, "MidiFile").a, TRUE).a, "Ok").a

\* ... and after both notes were played and a tick judged them
FocusPlayed ==
    AppCore_tick(midi_callback(midi_callback(FocusStart, 0, NoteOn(0, 80), FALSE),
                               0, NoteOn(1, 80), FALSE))

FocusInit ==
    /\ \E x \in {FocusStart, FocusPlayed} : StartsAs(x)
    /\ last_cmd = "StartPractice"
    /\ last_result = "Ok"

FocusDo(a, cmd, result) == steps < FocusMaxSteps /\ Commit(a, cmd, result)

FcLoadScore ==
    \E source \in {"MidiFile", "MidiFileUnreadable"} :
        \E r \in {load_score(App, source)} : FocusDo(r.a, "LoadScore", r.result)

FcStartPractice ==
    \E r \in {start_practice(App, "Ok")} : FocusDo(r.a, "StartPractice", r.result)

FcStopPractice == FocusDo(stop_practice(App), "StopPractice", "Ok")

FcSeek == \E t \in {0, 480} : FocusDo(seek(App, t), "Seek", "Ok")

FcSetLoop ==
    FocusDo(set_loop(App, Some([start_tick |-> 0, end_tick |-> 10])), "SetLoop", "Ok")

FcMidiCallback ==
    /\ midi_stream
    /\ \E note \in {0, 1} :
           FocusDo(midi_callback(App, wall, NoteOn(note, 80), FALSE), "MidiCallback", "Ok")

FcTick == \E r \in {AppCore_tick(App)} : FocusDo(r, "Tick", "Ok")

FcAudioCallback ==
    /\ audio_stream
    /\ FocusDo(audio_callback(App), "AudioCallback", "Ok")

FocusNext ==
    \/ FcLoadScore
    \/ FcStartPractice
    \/ FcStopPractice
    \/ FcSeek
    \/ FcSetLoop
    \/ FcMidiCallback
    \/ FcTick
    \/ FcAudioCallback

SpecFocus == FocusInit /\ [][FocusNext]_vars

\* the Hit and Miss events of a returned event list
Resolutions(events) == SelectSeq(events, LAMBDA ev : ev.type \in {"Hit", "Miss"})

\* the Hits and Misses of the last judge call are for the targets just
\* before the focus, one each, in list order
ResolvedInOrder ==
    LET res == Resolutions(jevents)
    IN /\ judge.idx <= Len(judge.targets)
       /\ Len(res) <= judge.idx
       /\ \A k \in 1..Len(res) :
              res[k].target_id = judge.targets[judge.idx - Len(res) + k].id

\* a step that loads targets
LoadsTargets ==
    /\ jcall'.op = "load_targets"
    /\ jcalls' # jcalls \/ (StepOf("LoadScore") /\ last_result' = "Ok")

\* a step moves the focus forward by one target for each Hit and Miss it
\* counts, and not at all once it is past the last target
FocusForward ==
    LoadsTargets
    \/ /\ judge'.idx >= judge.idx
       /\ judge'.targets = judge.targets
       /\ judge'.idx - judge.idx
              = (judge'.stats.hit + judge'.stats.miss) - (judge.stats.hit + judge.stats.miss)
       /\ judge.idx = Len(judge.targets) =>
              /\ judge'.stats = judge.stats
              /\ (jcall' # jcall \/ jcalls' # jcalls) => Resolutions(jevents') = <<>>

\* C32: between two load_targets calls each target gets at most one Hit or
\* Miss, in target-list order; the focus index never decreases under
\* on_note_on, advance_to, Seek, StopPractice, StartPractice and loop wraps;
\* and once the last target is resolved no Hit or Miss is emitted.
C32_FocusOnlyForward == []ResolvedInOrder /\ [][FocusForward]_vars

\* the last target was resolved, the position was taken back to the start
\* and the first note played again and judged
C32_Witness ==
    /\ judge.idx = Len(judge.targets)
    /\ judge.idx > 0
    /\ last_cmd = "Tick"
    /\ judged # <<>>
    /\ transport.position_tick = 0
    /\ judge.stats.hit > 0


----------------------------------------------------------------------------
(* Statistics of the judge                                                 *)

\* the Hits of an event list with the given grade
HitsGraded(events, grade) ==
    SelectSeq(events, LAMBDA ev : ev.type = "Hit" /\ ev.grade = grade)

\* the Hits of an event list after its last Miss
RECURSIVE HitsSinceMiss(_)
HitsSinceMiss(events) ==
    IF events = <<>> \/ events[Len(events)].type = "Miss"
    THEN 0
    ELSE HitsSinceMiss(SubSeq(events, 1, Len(events) - 1))
         + (IF events[Len(events)].type = "Hit" THEN 1 ELSE 0)

\* one judge call adds the events it emits to the counters
StatsCount ==
    JudgeStep =>
        IF jcall'.op = "load_targets"
        THEN judge'.stats = judge.stats
        ELSE /\ judge'.stats.hit = judge.stats.hit + Len(EventsOf(jevents', "Hit"))
             /\ judge'.stats.miss = judge.stats.miss + Len(EventsOf(jevents', "Miss"))
             /\ judge'.stats.score = judge.stats.score
                    + 100 * Len(HitsGraded(jevents', "Perfect"))
                    + 70 * Len(HitsGraded(jevents', "Good"))
             /\ Len(EventsOf(jevents', "Hit"))
                    = Len(HitsGraded(jevents', "Perfect")) + Len(HitsGraded(jevents', "Good"))
             /\ judge'.stats.combo =
                    IF EventsOf(jevents', "Miss") = <<>>
                    THEN judge.stats.combo + Len(EventsOf(jevents', "Hit"))
                    ELSE HitsSinceMiss(jevents')
             /\ judge'.stats.wrong >= judge.stats.wrong

\* C33: hit and miss count the Hit and Miss events emitted since the judge
\* was created, score is 100 for each Perfect hit plus 70 for each Good hit,
\* combo is the number of Hits since the most recent Miss; hit, miss, wrong
\* and score never decrease, and load_targets leaves all counters unchanged.
C33_StatsAccounting ==
    /\ [](jcalls = 0 => judge.stats = StatsState0)
    /\ [](judge.stats.combo <= judge.stats.hit)
    /\ [][StatsCount]_vars

\* a Hit, then a Miss, then a Hit again
C33_Witness ==
    /\ judge.stats.hit = 2
    /\ judge.stats.miss = 1
    /\ judge.stats.combo = 1
    /\ judge.stats.score \in {140, 170, 200}


----------------------------------------------------------------------------
(* Conservation of events in the audio graph                               *)

\* how many times each element occurs in a sequence
CountsOf(s) == [x \in Range(s) |-> Cardinality({i \in DOMAIN s : s[i] = x})]

\* the events the callback popped from the queue
Popped == SubSeq(audio_queue, 1, Len(audio_queue) - Len(audio_queue'))

\* one callback: a pending event not yet due stays in its slot and nothing
\* is popped; otherwise the due pending event and the popped events, but
\* for a last popped one that goes into the empty slot, are each handed to
\* the synth once or skipped as muted NoteOns
EventsConserved ==
    RenderStep =>
        /\ audio_queue' = SubSeq(audio_queue, Len(Popped) + 1, Len(audio_queue))
        /\ IF pending # None /\ pending[1].sample_time >= stream_time'
           THEN /\ pending' = pending
                /\ Popped = <<>>
                /\ synth_calls' = <<>>
           ELSE LET kept == IF pending' = None THEN 0 ELSE 1
                    due == pending \o SubSeq(Popped, 1, Len(Popped) - kept)
                IN /\ pending' # None =>
                          /\ Popped # <<>>
                          /\ pending'[1] = Popped[Len(Popped)]
                          /\ pending'[1].sample_time >= stream_time'
                   /\ pending' = None => audio_queue' = <<>>
                   /\ \A i \in 1..Len(due) : due[i].sample_time < stream_time'
                   /\ CountsOf(CallEvents(synth_calls'))
                          = CountsOf(SelectSeq(due, LAMBDA ev : ~ScoreNoteOnMuted(ev)))

\* C34: every event popped from the control-to-audio queue is, exactly once,
\* passed to synth.handle_event or skipped as a muted Autopilot/MetronomeFx
\* NoteOn; the event saved in the pending slot is delivered by the callback
\* whose block reaches it, and the slot is not overwritten while it holds an
\* undelivered event.
C34_NoEventLostOrDuplicated == [][EventsConserved]_vars

\* a callback has handed events to the synth, saved one that is not due in
\* the pending slot and left the events behind it in the queue
C34_Witness ==
    /\ stream_time > 0
    /\ synth_calls # <<>>
    /\ pending # None
    /\ pending[1].sample_time >= stream_time
    /\ audio_queue # <<>>


----------------------------------------------------------------------------
(* The partition of a block into rendered segments                         *)

\* the segments are not empty, follow one another and cover [0, frames)
CoversBlock(segments, frames) ==
    /\ segments # <<>>
    /\ segments[1].from = 0
    /\ segments[Len(segments)].to = frames
    /\ \A i \in 1..Len(segments) : segments[i].from < segments[i].to
    /\ \A i \in 1..(Len(segments) - 1) : segments[i].to = segments[i + 1].from

\* the frames rendered before a call are whole segments
AtSegmentEdge(segments, frame) ==
    frame = 0 \/ \E i \in 1..Len(segments) : segments[i].to = frame

BlockPartition ==
    RenderStep =>
        /\ CoversBlock(gblock'.segments, gblock'.frames)
        /\ \A i \in 1..Len(synth_calls') :
               LET call == synth_calls'[i]
               IN /\ AtSegmentEdge(gblock'.segments, call.frame)
                  /\ call.sample_time >= gblock'.start =>
                         /\ call.frame = call.sample_time - gblock'.start
                         /\ call.at = call.sample_time
                  /\ call.sample_time < gblock'.start => call.frame = 0

\* C35: each audio callback renders exactly `frames` frames as contiguous,
\* non-overlapping segments covering the block; an event with sample_time s
\* in [start, end) is passed to the synth after exactly s - start frames of
\* the block have been rendered, and a late event (s < start) before any
\* frame of the block is rendered.
C35_BlockPartition == [][BlockPartition]_vars

\* a callback has handed over a late event first and another inside its
\* block after rendering up to it
C35_Witness ==
    /\ stream_time > BlockFrames
    /\ Len(gblock.segments) = 2
    /\ \E i, k \in 1..Len(synth_calls) :
           /\ synth_calls[i].sample_time < gblock.start
           /\ synth_calls[k].sample_time > gblock.start
           /\ synth_calls[k].frame > 0


----------------------------------------------------------------------------
(* Events that wait behind a later one                                     *)

\* after a callback nothing that was due in its block is left in the queue
\* or in the pending slot
NoDueEventLeft ==
    RenderStep =>
        /\ \A i \in 1..Len(audio_queue') : audio_queue'[i].sample_time >= stream_time'
        /\ pending' # None => pending'[1].sample_time >= stream_time'

\* C36: an event that is in the control-to-audio queue when a callback for
\* block [start, end) begins and whose sample_time is before end is handed
\* to the synth during that callback, whatever other events are in the queue
\* or in the pending slot.
C36_NoHeadOfLineDelay == [][NoDueEventLeft]_vars

\* the same when no event is queued behind one with a later sample_time
QueueInTimeOrder ==
    LET q == pending \o audio_queue
    IN \A i \in 1..(Len(q) - 1) : q[i].sample_time <= q[i + 1].sample_time

C36_InOrderNoDelay == [][QueueInTimeOrder => NoDueEventLeft]_vars


----------------------------------------------------------------------------
(* SpecNotes: a held note played back through the scheduler, the queue,    *)
(* the graph and the synth, under commands, control ticks and callbacks    *)

NotesMaxSteps == 6      \* commands, ticks and callbacks per behaviour

\* a score with one held note of the left hand: its NoteOff lies beyond the
\* look-ahead of the tick that schedules its NoteOn
HeldNoteScore ==
    [ppq |-> 480,
     tempo_map |-> <<[tick |-> 0, us_per_quarter |-> 500000]>>,
     playback_events |-> <<PlaybackMidiEvent(0, NoteOn(0, 80), "Left"),
                           PlaybackMidiEvent(40, NoteOff(0), "Left")>>,
     targets |-> <<Target(1, 0, <<0>>)>>]

\* the application after the score is applied and StartPractice has run
NotesStart == start_practice(apply_score(AppNew, HeldNoteScore), "Ok").a

NotesInit ==
    /\ StartsAs(NotesStart)
    /\ last_cmd = "StartPractice"
    /\ last_result = "Ok"

\* the synth after the graph's handle_event calls of one callback
RECURSIVE synth_feed(_, _, _)
synth_feed(w, calls, i) ==
    IF i > Len(calls)
    THEN w
    ELSE synth_feed(wg_handle_event(w, calls[i].bus, calls[i].event).w, calls, i + 1)

\* store the record a handler returned
NotesDo(a, cmd, result) ==
    /\ steps < NotesMaxSteps
    /\ session_state' = a.session_state
    /\ score' = a.score
    /\ audio_stream' = a.audio_stream
    /\ audio_queue_tx' = a.audio_queue_tx
    /\ settings' = a.settings
    /\ transport' = a.transport
    /\ scheduler' = a.scheduler
    /\ judge' = a.judge
    /\ jevents' = a.jevents
    /\ jcall' = a.jcall
    /\ params' = a.params
    /\ audio_queue' = a.audio_queue
    /\ pending' = a.pending
    /\ audio_clock' = a.audio_clock
    /\ stream_time' = a.stream_time
    /\ midi_stream' = a.midi_stream
    /\ midi_queue_rx' = a.midi_queue_rx
    /\ midi_queue' = a.midi_queue
    /\ recent_inputs' = a.recent_inputs
    /\ wall' = a.wall
    /\ judged' = a.judged
    /\ last_cmd' = cmd
    /\ last_result' = result
    /\ steps' = steps + 1
    /\ UNCHANGED <<jcalls, gpushes, schedVars, twin, smf_events, playback_events, wg_call>>

\* a command or a tick: the audio thread does not run
NotesControl(a, cmd, result) ==
    /\ NotesDo(a, cmd, result)
    /\ UNCHANGED <<synth_calls, gblock, wg>>

NtStartPractice ==
    LET r == start_practice(App, "Ok") IN NotesControl(r.a, "StartPractice", r.result)

NtPausePractice == NotesControl(pause_practice(App), "PausePractice", "Ok")

NtStopPractice == NotesControl(stop_practice(App), "StopPractice", "Ok")

NtSeek == \E t \in {0, 480} : NotesControl(seek(App, t), "Seek", "Ok")

NtSetLoop ==
    NotesControl(set_loop(App, Some([start_tick |-> 0, end_tick |-> 40])), "SetLoop", "Ok")

NtSetPlaybackMode ==
    \E mode \in PlaybackModes :
        NotesControl(set_playback_mode(App, mode), "SetPlaybackMode", "Ok")

NtSetAccompanimentRoute ==
    \E r \in HandRoutes :
        NotesControl(set_route(App, r[1], r[2]), "SetAccompanimentRoute", "Ok")

NtTick == \E r \in {AppCore_tick(App)} : NotesControl(r, "Tick", "Ok")

\* the output stream's callback: AudioGraph::render and the synth it drives
NtAudioCallback ==
    /\ audio_stream
    /\ \E r \in {render(pending, audio_queue, stream_time, CallbackFrames,
                        params.playback_enabled)} :
           /\ NotesDo([App EXCEPT !.pending = r.pending, !.audio_queue = r.queue,
                                  !.audio_clock = r.clock,
                                  !.stream_time = stream_time + CallbackFrames],
                      "AudioCallback", "Ok")
           /\ synth_calls' = r.calls
           /\ gblock' = [start |-> stream_time, frames |-> CallbackFrames,
                         segments |-> r.segments]
           /\ wg' = synth_feed(wg, r.calls, 1)

NotesNext ==
    \/ NtStartPractice
    \/ NtPausePractice
    \/ NtStopPractice
    \/ NtSeek
    \/ NtSetLoop
    \/ NtSetPlaybackMode
    \/ NtSetAccompanimentRoute
    \/ NtTick
    \/ NtAudioCallback

SpecNotes == NotesInit /\ [][NotesNext]_vars

\* the Autopilot bus of the synth holds the key of this pitch down
Sounding(note) ==
    \E i \in 1..MaxVoices :
        LET v == wg.buses["Autopilot"].voices[i]
        IN v.active /\ v.key_down /\ v.note = note

\* an Autopilot NoteOff of this pitch is still on its way to the synth: in
\* the pending slot, in the queue, or in the part of the score the scheduler
\* has yet to emit (before the loop end, for a hand the route lets through)
NoteOffAhead(note) ==
    \/ \E i \in 1..Len(pending) :
           pending[i].bus = "Autopilot" /\ pending[i].event = NoteOff(note)
    \/ \E i \in 1..Len(audio_queue) :
           audio_queue[i].bus = "Autopilot" /\ audio_queue[i].event = NoteOff(note)
    \/ \E i \in 1..Len(scheduler.events) :
           LET e == scheduler.events[i]
           IN /\ e.event = NoteOff(note)
              /\ route_bus(scheduler, e.hand) # None
              /\ IF scheduler.loop_range = None
                 THEN i > scheduler.cursor
                 ELSE /\ e.tick < scheduler.loop_range[1].end_tick
                      /\ i > scheduler.cursor \/ e.tick >= scheduler.loop_range[1].start_tick

\* C37: every Autopilot NoteOn that reaches the synth is eventually followed
\* by a NoteOff of the same pitch on that bus, whatever commands (seek, loop,
\* playback mode, hand route, pause, stop) are given while the note sounds:
\* as long as the note sounds a NoteOff for it is still on its way, for
\* otherwise no tick and no callback that follows can release it.
C37_NoStuckNotes ==
    \A note \in 0..(NumNotes - 1) : Sounding(note) => NoteOffAhead(note)

\* C37 when the only commands given are StartPractice, PausePractice and
\* StopPractice
C37_PauseStopStart ==
    [](last_cmd \in {"StartPractice", "PausePractice", "StopPractice",
                     "Tick", "AudioCallback"})
        => []C37_NoStuckNotes

----------------------------------------------------------------------------
(* C38: the sample times of the events a control tick schedules            *)

\* the scheduler's look-ahead in samples, as Scheduler::schedule computes it
LookaheadSamples == RoundDiv(scheduler.lookahead_ms * scheduler.sample_rate_hz, 1000)

\* the events this step pushed into the ring buffer
Pushed == SubSeq(audio_queue', Len(audio_queue) + 1, Len(audio_queue'))

\* A control tick of a Running session pushes no Autopilot event dated before
\* the audio clock it read.  The clock has advanced by no more than the
\* look-ahead since the stream was opened, and so between any two ticks.
TickNotLate ==
    (/\ last_cmd' = "Tick"
     /\ session_state = "Running"
     /\ audio_clock <= LookaheadSamples)
        => \A i \in 1..Len(Pushed) :
               Pushed[i].bus = "Autopilot" => Pushed[i].sample_time >= audio_clock

\* C38: while the session is Running and the audio clock advances by no more
\* than the look-ahead between control ticks, every Autopilot event a control
\* tick pushes has sample_time >= the audio clock read at the start of the
\* tick, also after a Seek or a loop wrap.
C38_NeverLate == [][TickNotLate]_vars


----------------------------------------------------------------------------
(* C39: an audio output that fails to open                                 *)

\* the step is a SelectAudioOutput or StartPractice that returned the audio
\* port's error
AudioOpenFailed ==
    /\ last_cmd' \in {"SelectAudioOutput", "StartPractice"}
    /\ last_result' = "Audio"

\* the stream, its queue, the transport's rate and origin, the scheduler, the
\* audio clock and the playback flag are as before the step
OutputAsBefore ==
    /\ audio_stream' = audio_stream
    /\ audio_queue_tx' = audio_queue_tx
    /\ audio_queue' = audio_queue
    /\ transport'.sample_rate_hz = transport.sample_rate_hz
    /\ transport'.origin_sample = transport.origin_sample
    /\ scheduler' = scheduler
    /\ audio_clock' = audio_clock
    /\ params'.playback_enabled = params.playback_enabled

\* C39: a SelectAudioOutput, or an audio open during StartPractice, that
\* fails because the port cannot open the device returns an error and leaves
\* the stream and its queue, the transport's sample rate and origin, the
\* scheduler, the audio clock and playback_enabled as they were.
C39_FailedOpenChangesNothing == [][AudioOpenFailed => OutputAsBefore]_vars

\* what a failed open does leave alone: the producer and the contents of the
\* ring buffer, the playback flag, the session state and the score
C39_FailedOpenKeepsQueue ==
    [][AudioOpenFailed =>
          /\ audio_queue_tx' = audio_queue_tx
          /\ audio_queue' = audio_queue
          /\ params' = params
          /\ session_state' = session_state
          /\ score' = score]_vars


----------------------------------------------------------------------------
(* SpecPedal: StartPractice of a score that begins with the pedal down,    *)
(* under the commands, ticks and callbacks of SpecNotes                    *)

\* a score whose first tick holds a pedal-down and a NoteOn
PedalScore ==
    [ppq |-> 480,
     tempo_map |-> <<[tick |-> 0, us_per_quarter |-> 500000]>>,
     playback_events |-> <<PlaybackMidiEvent(0, Cc64(127), "None"),
                           PlaybackMidiEvent(0, NoteOn(0, 80), "Left"),
                           PlaybackMidiEvent(10, NoteOff(0), "Left"),
                           PlaybackMidiEvent(20, Cc64(0), "None")>>,
     targets |-> <<Target(1, 0, <<0>>)>>]

\* the application after the score is applied: Ready, no output open yet
PedalReady == apply_score(AppNew, PedalScore)

PedalInit ==
    /\ StartsAs(PedalReady)
    /\ last_cmd = "LoadScore"
    /\ last_result = "Ok"

SpecPedal == PedalInit /\ [][NotesNext]_vars

\* the step is a StartPractice that started the session
Started ==
    /\ last_cmd' = "StartPractice"
    /\ last_result' = "Ok"
    /\ session_state # "Running"

\* what StartPractice pushed: the flush, then the first scheduled batch
StartFlush == SubSeq(Pushed, 1, Min(Len(Pushed), 2 * NumNotes + 2))
StartBatch == SubSeq(Pushed, Len(StartFlush) + 1, Len(Pushed))

\* the handle_event calls of the callback that follows the step
NextCalls ==
    render(pending', audio_queue', stream_time', CallbackFrames,
           params'.playback_enabled).calls

\* the calls for events dated at this sample time
RECURSIVE DatedAt(_, _)
DatedAt(calls, sample_time) ==
    IF calls = <<>>
    THEN <<>>
    ELSE (IF Head(calls).sample_time = sample_time THEN <<Head(calls)>> ELSE <<>>)
         \o DatedAt(Tail(calls), sample_time)

\* the call hands over an event of this list
CallOf(call, events) ==
    \E k \in 1..Len(events) :
        /\ events[k].bus = call.bus
        /\ events[k].event = call.event
        /\ events[k].sample_time = call.sample_time

\* the callback hands over the flush and the batch's events at the start
\* position (none of them is held back behind an earlier, later-dated event)
StartDispatched(calls) ==
    \A k \in 1..Len(Pushed) :
        Pushed[k].sample_time = audio_clock'
            => \E i \in 1..Len(calls) : CallOf(calls[i], <<Pushed[k]>>)

\* every flush event is handed to the synth before any event of the batch
FlushBeforeBatch(calls) ==
    \A i, j \in 1..Len(calls) :
        CallOf(calls[i], StartBatch) /\ CallOf(calls[j], StartFlush) => j < i

\* the batch's NoteOns at the start position sound once the flush and they
\* have been dispatched
StartNotesSound(calls) ==
    \E w \in {synth_feed(wg', DatedAt(calls, audio_clock'), 1)} :
        \A k \in 1..Len(StartBatch) :
            LET e == StartBatch[k]
            IN (e.sample_time = audio_clock' /\ e.event.kind = "NoteOn")
                   => \E i \in 1..MaxVoices :
                          LET v == w.buses[e.bus].voices[i]
                          IN v.active /\ v.key_down /\ v.note = e.event.note

\* the batch's pedal-down at the start position holds once the flush and it
\* have been dispatched
StartPedalHolds(calls) ==
    \E w \in {synth_feed(wg', DatedAt(calls, audio_clock'), 1)} :
        \A k \in 1..Len(StartBatch) :
            LET e == StartBatch[k]
            IN (e.sample_time = audio_clock' /\ e.event.kind = "Cc64"
                    /\ e.event.value >= 64)
                   => w.buses[e.bus].sustain_down

FlushKeepsBatch ==
    Started => \E calls \in {NextCalls} :
                   StartDispatched(calls)
                       => /\ FlushBeforeBatch(calls)
                          /\ StartNotesSound(calls)
                          /\ StartPedalHolds(calls)

\* C40: the flush of StartPractice does not cancel the first batch: every
\* flush event is dispatched to the synth before any event of the first
\* scheduled batch, so a NoteOn or a pedal-down Cc64 at the start position is
\* still in effect after both have been dispatched.
C40_FlushBeforeFirstBatch == [][FlushKeepsBatch]_vars

FlushKeepsNotes ==
    Started => \E calls \in {NextCalls} :
                   StartDispatched(calls) => StartNotesSound(calls)

\* C40 for the notes alone: a NoteOn at the start position sounds after the
\* flush and the batch have been dispatched
C40_StartNotesSound == [][FlushKeepsNotes]_vars

====
